---- MODULE Spec2Model ----
(***************************************************************************)
(* Status aggregation of the provisioner: the status cache                 *)
(* (api/status/cache.go), the status checker (GetParticipantStatus and its *)
(* helpers), the component evaluator and the overall-status reducer.       *)
(*                                                                         *)
(* Time is counted in seconds.  Text produced by fmt.Sprintf is a sequence *)
(* of string tokens (the literal pieces of the format and the formatted    *)
(* arguments), "" is the empty sequence, and a + b on strings is \o.       *)
(***************************************************************************)
EXTENDS Integers, Sequences, FiniteSets, TLC

----------------------------------------------------------------------------
(* Program constants *)

\* newStatusCache(10 * time.Second)
TTL == 10

\* time.NewTicker(1 * time.Minute)
CleanupInterval == 60

\* var criticalDeployments
criticalDeployments == <<"controlplane", "dataplane", "identityhub", "postgres">>

StatusProvisioning == "PROVISIONING"
StatusReady == "READY"
StatusDegraded == "DEGRADED"
StatusFailed == "FAILED"
StatusDeleting == "DELETING"
StatusNotFound == "NOT_FOUND"

ProvisioningStatus ==
  {StatusProvisioning, StatusReady, StatusDegraded, StatusFailed, StatusDeleting,
   StatusNotFound}

----------------------------------------------------------------------------
(* Helpers on sequences and maps *)

Range(s) == {s[i] : i \in DOMAIN s}

\* a Go map literal / make(map...): the function with empty domain
EmptyMap == [k \in {} |-> TRUE]

\* m[k] = v on a Go map
MapPut(m, k, v) == [x \in (DOMAIN m) \cup {k} |-> IF x = k THEN v ELSE m[x]]

\* strings.Contains on token sequences: part occurs contiguously in msg
Contains(msg, part) ==
  \E i \in 0..(Len(msg) - Len(part)) :
    \A j \in 1..Len(part) : msg[i + j] = part[j]

----------------------------------------------------------------------------
(* Component evaluator *)

\* A workload resource (appsv1.Deployment / appsv1.StatefulSet) as read:
\* Name, SpecReplicas (<<>> is the nil pointer, <<n>> a set value), and the
\* status counts Replicas, ReadyReplicas, UnavailableReplicas.
Workload(name, specReplicas, replicas, ready, unavailable) ==
  [Name |-> name, SpecReplicas |-> specReplicas, Replicas |-> replicas,
   ReadyReplicas |-> ready, UnavailableReplicas |-> unavailable]

\* desired := int32(1); if Spec.Replicas != nil { desired = *Spec.Replicas }
DesiredReplicas(w) == IF w.SpecReplicas # <<>> THEN w.SpecReplicas[1] ELSE 1

ComponentStatus(status, isReady, desired, current, ready, message) ==
  [Status |-> status, Ready |-> isReady,
   Replicas |-> [Desired |-> desired, Current |-> current, Ready |-> ready],
   Message |-> message]

\* GetDeploymentStatus with the tests of rules 2 and 3 in the other order
GetDeploymentStatusStartingFirst(deployment) ==
  LET desired == DesiredReplicas(deployment)
      current == deployment.Replicas
      ready == deployment.ReadyReplicas
  IN  IF ready = desired /\ desired > 0
        THEN ComponentStatus("Running", TRUE, desired, current, ready, <<>>)
      ELSE IF ready < desired
        THEN ComponentStatus("Starting", FALSE, desired, current, ready,
                             <<ToString(ready), " of ", ToString(desired),
                               " replicas ready">>)
      ELSE IF current = 0
        THEN ComponentStatus("Pending", FALSE, desired, current, ready,
                             <<"No pods are running">>)
      ELSE IF deployment.UnavailableReplicas > 0
        THEN ComponentStatus("Degraded", FALSE, desired, current, ready,
                             <<ToString(deployment.UnavailableReplicas),
                               " replicas unavailable">>)
      ELSE ComponentStatus("Unknown", FALSE, desired, current, ready, <<>>)

GetDeploymentStatus(deployment) ==
  LET desired == DesiredReplicas(deployment)
      current == deployment.Replicas
      ready == deployment.ReadyReplicas
  IN  IF ready = desired /\ desired > 0
        THEN ComponentStatus("Running", TRUE, desired, current, ready, <<>>)
      ELSE IF current = 0
        THEN ComponentStatus("Pending", FALSE, desired, current, ready,
                             <<"No pods are running">>)
      ELSE IF ready < desired
        THEN ComponentStatus("Starting", FALSE, desired, current, ready,
                             <<ToString(ready), " of ", ToString(desired),
                               " replicas ready">>)
      ELSE IF deployment.UnavailableReplicas > 0
        THEN ComponentStatus("Degraded", FALSE, desired, current, ready,
                             <<ToString(deployment.UnavailableReplicas),
                               " replicas unavailable">>)
      ELSE ComponentStatus("Unknown", FALSE, desired, current, ready, <<>>)

\* GetStatefulSetStatus with the chain of GetDeploymentStatus, rule 4 included
GetStatefulSetStatusWithRule4(sts) == GetDeploymentStatus(sts)

GetStatefulSetStatus(sts) ==
  LET desired == DesiredReplicas(sts)
      current == sts.Replicas
      ready == sts.ReadyReplicas
  IN  IF ready = desired /\ desired > 0
        THEN ComponentStatus("Running", TRUE, desired, current, ready, <<>>)
      ELSE IF current = 0
        THEN ComponentStatus("Pending", FALSE, desired, current, ready,
                             <<"No pods are running">>)
      ELSE IF ready < desired
        THEN ComponentStatus("Starting", FALSE, desired, current, ready,
                             <<ToString(ready), " of ", ToString(desired),
                               " replicas ready">>)
      ELSE ComponentStatus("Unknown", FALSE, desired, current, ready, <<>>)

----------------------------------------------------------------------------
(* Overall-status reducer *)

IsCriticalName(name) == name \in Range(criticalDeployments)

\* CriticalLoop with an absent critical component not counted as not ready
RECURSIVE CriticalLoopSkipsAbsent(_, _, _)
CriticalLoopSkipsAbsent(components, i, acc) ==
  IF i > Len(criticalDeployments) THEN acc
  ELSE
    LET deploymentName == criticalDeployments[i]
    IN  IF deploymentName \notin DOMAIN components
          THEN CriticalLoopSkipsAbsent(components, i + 1, acc)
        ELSE IF ~components[deploymentName].Ready
          THEN CriticalLoopSkipsAbsent(components, i + 1,
                 [allCriticalReady |-> FALSE,
                  criticalNotReadyCount |-> acc.criticalNotReadyCount + 1,
                  messages |-> acc.messages])
        ELSE CriticalLoopSkipsAbsent(components, i + 1, acc)

\* CriticalLoop with an absent critical component counted but no message
\* recorded for it
RECURSIVE CriticalLoopSilentOnAbsent(_, _, _)
CriticalLoopSilentOnAbsent(components, i, acc) ==
  IF i > Len(criticalDeployments) THEN acc
  ELSE
    LET deploymentName == criticalDeployments[i]
        present == deploymentName \in DOMAIN components
    IN  IF present /\ components[deploymentName].Ready
          THEN CriticalLoopSilentOnAbsent(components, i + 1, acc)
          ELSE CriticalLoopSilentOnAbsent(components, i + 1,
                 [allCriticalReady |-> FALSE,
                  criticalNotReadyCount |-> acc.criticalNotReadyCount + 1,
                  messages |->
                    IF present /\ components[deploymentName].Message # <<>>
                      THEN Append(acc.messages,
                                  <<deploymentName, ": ">>
                                    \o components[deploymentName].Message)
                      ELSE acc.messages])

\* The loop over criticalDeployments (in slice order), from index i on, carrying
\* the locals allCriticalReady, criticalNotReadyCount and messages.
RECURSIVE CriticalLoop(_, _, _)
CriticalLoop(components, i, acc) ==
  IF i > Len(criticalDeployments) THEN acc
  ELSE
    LET deploymentName == criticalDeployments[i]
    IN  IF deploymentName \notin DOMAIN components
          THEN CriticalLoop(components, i + 1,
                 [allCriticalReady |-> FALSE,
                  criticalNotReadyCount |-> acc.criticalNotReadyCount + 1,
                  messages |-> Append(acc.messages,
                                 <<"Critical component ", deploymentName,
                                   " not found">>)])
        ELSE IF ~components[deploymentName].Ready
          THEN CriticalLoop(components, i + 1,
                 [allCriticalReady |-> FALSE,
                  criticalNotReadyCount |-> acc.criticalNotReadyCount + 1,
                  messages |->
                    IF components[deploymentName].Message # <<>>
                      THEN Append(acc.messages,
                             <<deploymentName, ": ">>
                               \o components[deploymentName].Message)
                      ELSE acc.messages])
        ELSE CriticalLoop(components, i + 1, acc)

\* AnyNonCriticalNotReady without the test of Ready
AnyNonCriticalPresent(components) ==
  \E name \in DOMAIN components : ~IsCriticalName(name)

\* AnyNonCriticalNotReady with the flag never raised
NonCriticalIgnored(components) == FALSE

\* The loop over the map: order of iteration is irrelevant, it only raises a flag.
AnyNonCriticalNotReady(components) ==
  \E name \in DOMAIN components :
    ~IsCriticalName(name) /\ ~components[name].Ready

\* NotReadyMessage with the two arguments of the format swapped
NotReadyMessageSwapped(criticalNotReadyCount) ==
  <<ToString(Len(criticalDeployments)), " of ", ToString(criticalNotReadyCount),
    " critical components not ready">>

\* fmt.Sprintf("%d of %d critical components not ready", criticalNotReadyCount,
\*             len(criticalDeployments))
NotReadyMessage(criticalNotReadyCount) ==
  <<ToString(criticalNotReadyCount), " of ", ToString(Len(criticalDeployments)),
    " critical components not ready">>

\* Decision that reports FAILED when no critical component is ready
DecisionFailsWhenNoneReady(loop, anyNonCriticalNotReady) ==
  IF loop.allCriticalReady /\ ~anyNonCriticalNotReady
    THEN <<StatusReady, <<"All components are running and ready">>>>
  ELSE IF loop.allCriticalReady /\ anyNonCriticalNotReady
    THEN <<StatusDegraded,
           <<"All critical components ready, but some non-critical components are not ready">>>>
  ELSE IF loop.criticalNotReadyCount = Len(criticalDeployments)
    THEN <<StatusFailed, <<"Critical components are not yet ready">>>>
  ELSE <<StatusDegraded, NotReadyMessage(loop.criticalNotReadyCount)>>

\* the if/else chain on the locals left by the two loops
Decision(loop, anyNonCriticalNotReady) ==
  IF loop.allCriticalReady /\ ~anyNonCriticalNotReady
    THEN <<StatusReady, <<"All components are running and ready">>>>
  ELSE IF loop.allCriticalReady /\ anyNonCriticalNotReady
    THEN <<StatusDegraded,
           <<"All critical components ready, but some non-critical components are not ready">>>>
  ELSE IF loop.criticalNotReadyCount = Len(criticalDeployments)
    THEN <<StatusProvisioning, <<"Critical components are not yet ready">>>>
  ELSE
    LET msg == NotReadyMessage(loop.criticalNotReadyCount)
    IN  <<StatusDegraded,
          IF Len(loop.messages) > 0
            THEN msg \o <<": ">> \o loop.messages[1]
            ELSE msg>>

DetermineOverallStatus(components) ==
  IF DOMAIN components = {}
    THEN <<StatusProvisioning,
           <<"No components found, provisioning may be in progress">>>>
  ELSE Decision(CriticalLoop(components, 1,
                  [allCriticalReady |-> TRUE, criticalNotReadyCount |-> 0,
                   messages |-> <<>>]),
                AnyNonCriticalNotReady(components))

\* the orders in which a range over a map with these keys may visit them
RECURSIVE IterationOrders(_)
IterationOrders(keys) ==
  IF keys = {} THEN {<<>>}
  ELSE UNION {{<<key>> \o rest : rest \in IterationOrders(keys \ {key})} :
                key \in keys}

\* NonCriticalLoop with the flag assigned at every key instead of raised
RECURSIVE NonCriticalLoopLastWins(_, _, _, _)
NonCriticalLoopLastWins(components, order, i, anyNonCriticalNotReady) ==
  IF i > Len(order) THEN anyNonCriticalNotReady
  ELSE NonCriticalLoopLastWins(components, order, i + 1,
         ~IsCriticalName(order[i]) /\ ~components[order[i]].Ready)

\* for name, component := range components { ... }, visiting the keys in order
RECURSIVE NonCriticalLoop(_, _, _, _)
NonCriticalLoop(components, order, i, anyNonCriticalNotReady) ==
  IF i > Len(order) THEN anyNonCriticalNotReady
  ELSE
    LET name == order[i]
        isCritical == \E j \in DOMAIN criticalDeployments :
                        name = criticalDeployments[j]
    IN  NonCriticalLoop(components, order, i + 1,
          IF ~isCritical /\ ~components[name].Ready
            THEN TRUE
            ELSE anyNonCriticalNotReady)

\* DetermineOverallStatus with the order of the range over the map made explicit
DetermineOverallStatusIn(components, order) ==
  IF Len(order) = 0
    THEN <<StatusProvisioning,
           <<"No components found, provisioning may be in progress">>>>
  ELSE Decision(CriticalLoop(components, 1,
                  [allCriticalReady |-> TRUE, criticalNotReadyCount |-> 0,
                   messages |-> <<>>]),
                NonCriticalLoop(components, order, 1, FALSE))

----------------------------------------------------------------------------
(* Event collector *)

\* time.Now().Add(-30 * time.Minute), in seconds
EventWindow == 1800

\* if len(events) > 10 { events = events[:10] }
MaxEvents == 10

Event(item) ==
  [Timestamp |-> item.LastTimestamp, Type |-> item.Type, Message |-> item.Message]

\* the loop that keeps the items with LastTimestamp.After(cutoff), in list order
RecentItems(items, at) ==
  LET cutoff == at - EventWindow
      kept == SelectSeq(items, LAMBDA item : item.LastTimestamp > cutoff)
  IN  [i \in 1..Len(kept) |-> Event(kept[i])]

\* the arrangements of the events at the positions left that are non-increasing
\* in Timestamp: one of the latest comes first, then an arrangement of the rest
RECURSIVE Arrangements(_, _)
Arrangements(events, left) ==
  IF left = {} THEN {<<>>}
  ELSE UNION {{<<events[i]>> \o rest : rest \in Arrangements(events, left \ {i})} :
                i \in {k \in left :
                         \A j \in left :
                           events[k].Timestamp >= events[j].Timestamp}}

\* sort.Slice with less(i, j) = events[i].Timestamp.After(events[j].Timestamp):
\* the sort is not stable, so every arrangement of events that is non-increasing
\* in Timestamp is a possible outcome.
SortedArrangements(events) == Arrangements(events, DOMAIN events)

\* Truncate keeping the last MaxEvents events instead of the first
TruncateTail(events) ==
  IF Len(events) > MaxEvents
    THEN SubSeq(events, Len(events) - MaxEvents + 1, Len(events))
    ELSE events

Truncate(events) ==
  IF Len(events) > MaxEvents THEN SubSeq(events, 1, MaxEvents) ELSE events

\* the set of sequences GetRecentEvents may return for the listed items at time at
GetRecentEvents(items, at) ==
  {Truncate(sorted) : sorted \in SortedArrangements(RecentItems(items, at))}

----------------------------------------------------------------------------
(* Bounds of the model and the sampled environment *)

\* the default timeout of an operation whose caller set no deadline, in seconds
DefaultTimeout == 30

\* the clock stops advancing at MaxTime
MaxTime == 70

\* how long the status checker has existed, unused, when it is first called
StartTime == 50

\* the clock advances in steps of Quantum seconds
Quantum == 10

\* the participant names (workload scopes) the status checker is asked for
Names == {"alpha"}

\* the keys used on the cache when it is exercised on its own
Keys == {"alpha", "beta"}

\* concurrent callers of the status checker (one per request goroutine)
Callers == {"c1", "c2"}

\* the callers whose client remembers the result of its last call
Observers == {"c1"}

\* what a scope may hold in the backing system when it is created
ReadyScope ==
  [Deleting |-> FALSE,
   Deployments |-> <<Workload("controlplane", <<>>, 1, 1, 0),
                     Workload("dataplane", <<1>>, 1, 1, 0),
                     Workload("identityhub", <<>>, 1, 1, 0)>>,
   StatefulSets |-> <<Workload("postgres", <<1>>, 1, 1, 0)>>,
   Events |-> <<[LastTimestamp |-> 0 - 1795, Type |-> "Normal",
                 Message |-> <<"Scheduled">>],
                [LastTimestamp |-> 0, Type |-> "Normal",
                 Message |-> <<"Started">>]>>]

StartingScope ==
  [Deleting |-> FALSE,
   Deployments |-> <<Workload("controlplane", <<>>, 1, 1, 0),
                     Workload("dataplane", <<2>>, 2, 1, 1),
                     Workload("vault", <<>>, 0, 0, 0)>>,
   StatefulSets |-> <<>>,
   Events |-> <<[LastTimestamp |-> 0, Type |-> "Warning",
                 Message |-> <<"BackOff">>]>>]

ScopeChoices == {ReadyScope, StartingScope}

\* the component names and statuses the reducer is evaluated on when on its own
ComponentNames == Range(criticalDeployments) \cup {"vault"}

SampleStatuses ==
  {GetDeploymentStatus(Workload("w", <<>>, 1, 1, 0)),
   GetDeploymentStatus(Workload("w", <<>>, 0, 0, 0)),
   GetDeploymentStatus(Workload("w", <<2>>, 2, 1, 1)),
   GetStatefulSetStatus(Workload("w", <<1>>, 2, 2, 0))}

----------------------------------------------------------------------------
(* State *)

VARIABLES
  now,         \* time.Now(), in seconds
  namespaces,  \* the backing system: scope name -> what the scope holds
  data,        \* statusCache.data: key -> cacheEntry (a Go map)
  unswept,     \* history: the map of a twin cache that is given the same
               \* operations at the same times and whose reaper never sweeps
  nextTick,    \* when the ticker of cleanup() delivers its next tick
  calls,       \* per caller: where its GetParticipantStatus call stands
  invalidated, \* history: the names invalidated with no call issued since
  got,         \* history: the get just made on the cache directly (else <<>>)
  components,  \* input of the reducer when it is evaluated on its own
  overall,     \* its result (<<>> before it has run)
  again,       \* a later evaluation of the same input: the order in which the
               \* range over the map visited the keys, and the result
  workload,    \* input of the component evaluators when evaluated on their own
  evaluated,   \* their results: [deployment, statefulSet], <<>> before the run
  listed,      \* the items the event listing returns when the event collector
               \* is evaluated on its own
  recent,      \* its result (<<>> before it has run)
  listing,     \* where a ListParticipants call stands, and its result
  stopChan,    \* statusCache.stopChan: "open" or "closed"
  reaper,      \* the goroutine running cleanup(): "select" or "returned"
  crashed,     \* the process has died of a run-time panic outside any request
  mu,          \* per cache instance: statusCache.mu, a sync.RWMutex
  maps,        \* per cache instance: statusCache.data
  ops,         \* per goroutine: the cache operation it is in and where it stands
  participantJson, \* main.go: the package variable holding the embedded template
  seeds,       \* per readiness callback: where its seedIdentityHubData stands
  cluster,     \* the backing system: the deployments of the namespace created
  waitCtx,     \* the context passed to waitForDeploymentsAsync
  waiters,     \* per deployment: the goroutine running waitForDeployment
  errCh,       \* waitForDeployments: the buffered channel of the results
  collector    \* the goroutine of waitForDeploymentsAsync

reducerVars == <<components, overall, again>>

evaluatorVars == <<workload, evaluated>>

eventVars == <<listed, recent>>

listVars == <<listing>>

\* the life cycle of the cache: its stop channel, its reaper and the process
lifeVars == <<stopChan, reaper, crashed>>

\* several cache instances, each with its lock, under concurrent operations
lockVars == <<mu, maps, ops>>

seedVars == <<participantJson, seeds>>

waitVars == <<cluster, waitCtx, waiters, errCh, collector>>

provisionVars == <<seedVars, waitVars>>

\* the variables that a GetParticipantStatus call and the operations on the cache
\* map leave alone: those of the functions evaluated on their own, of
\* ListParticipants, of the life cycle of the cache and of its locking
aloneVars ==
  <<reducerVars, evaluatorVars, eventVars, listVars, lifeVars, lockVars, provisionVars>>

\* the variables of the status checker, its cache and their environment
checkerVars == <<now, namespaces, data, unswept, nextTick, calls, invalidated, got>>

vars == <<checkerVars, aloneVars>>

----------------------------------------------------------------------------
(* Status cache *)

\* CacheEntry with the TTL not added to the expiry
CacheEntryNoTTL(response, at) ==
  [response |-> response, expiresAt |-> at, storedAt |-> at, crossed |-> FALSE]

\* &cacheEntry{response, expiresAt}; storedAt is history: the time.Now() of the
\* set; crossed is history: the writer held the response while an invalidate
\* of the key ran
CacheEntry(response, at) ==
  [response |-> response, expiresAt |-> at + TTL, storedAt |-> at,
   crossed |-> FALSE]

\* CacheGet without the test of the expiry
CacheGetNoExpiry(key) ==
  IF key \notin DOMAIN data THEN <<>> ELSE <<data[key].response>>

\* CacheGet with the entry taken as expired from its expiry instant on
CacheGetEarly(key) ==
  IF key \notin DOMAIN data \/ now >= data[key].expiresAt
    THEN <<>>
    ELSE <<data[key].response>>

\* get: <<>> is nil, <<r>> the cached response
CacheGet(key) ==
  IF key \notin DOMAIN data \/ now > data[key].expiresAt
    THEN <<>>
    ELSE <<data[key].response>>

\* CacheSet that puts the response into an entry of the key and keeps its expiry
CacheSetKeepsExpiry(key, response) ==
  IF key \in DOMAIN data
    THEN [data EXCEPT ![key].response = response]
    ELSE MapPut(data, key, CacheEntry(response, now))

\* CacheSet that leaves an entry of the key in place
CacheSetIfAbsent(key, response) ==
  IF key \in DOMAIN data THEN data ELSE MapPut(data, key, CacheEntry(response, now))

\* set: the map after c.data[key] = &cacheEntry{...}
CacheSet(key, response) == MapPut(data, key, CacheEntry(response, now))

\* invalidate: the map after delete(c.data, participantName)
CacheInvalidate(participantName) ==
  [k \in (DOMAIN data) \ {participantName} |-> data[k]]

\* clear: c.data = make(map[string]*cacheEntry)
CacheClear == EmptyMap

\* CleanupSweep that deletes an entry from its expiry instant on
CleanupSweepEarly ==
  [k \in {key \in DOMAIN data : ~(now >= data[key].expiresAt)} |-> data[k]]

\* one pass of the ticker branch of cleanup(): delete every entry with
\* now.After(entry.expiresAt)
CleanupSweep ==
  [k \in {key \in DOMAIN data : ~(now > data[key].expiresAt)} |-> data[k]]

----------------------------------------------------------------------------
(* Status checker *)

\* A caller that is not inside GetParticipantStatus and holds no result.
\*   pc        where the call stands
\*   name      participantName
\*   comps     the local components map
\*   status    the local (overallStatus, message) pair, <<>> before the reduction
\*   response  the *ParticipantStatusResponse built or returned (<<>> is nil)
\*   err       the error returned ("" is nil)
\* and the history of the call:
\*   hit       it was served by the cache
\*   saw       what the namespace lookup reported
\*   backingCalls  the calls made to the backing system, in order
\*   storedAt  when the returned response was written to the cache
\*   since     what happened to the cache entry of name after the call returned
\*   repeat    <<>>, or <<status, shared>> when the caller's previous call returned
\*             a response with that status for the same name, no invalidate of
\*             the name and no clear followed it, and this call was issued within
\*             TTL of the cache write of that response; shared tells whether
\*             another call wrote the entry of the name in between
\*   identical the response returned is equal to the one the previous call returned
\*   afterInvalidate  the call is the first issued for name after an invalidate
\*   eventsErr the error of the event query of the call, "" if none
\*   crossed   an invalidate of name ran while the call held its response and
\*             had not yet written it to the cache; on a hit, the response
\*             served was written by such a call
\* and, while the call runs,
\*   deadline  the deadline of the ctx of the call, <<t>>
\*   ctx       history: the ctx the caller passed
\*   entered   history: the time of the entry
IdleCall ==
  [pc |-> "idle", name |-> "", comps |-> EmptyMap, status |-> <<>>,
   response |-> <<>>, err |-> "", hit |-> FALSE, saw |-> "",
   backingCalls |-> <<>>, storedAt |-> 0, since |-> "", repeat |-> <<>>,
   identical |-> FALSE, afterInvalidate |-> FALSE, eventsErr |-> "",
   crossed |-> FALSE, deadline |-> <<>>, ctx |-> <<>>, entered |-> 0]

\* a context: <<>> when it carries no deadline, else <<t>> with t its deadline
NoDeadline == <<>>

\* WithDefaultTimeout with the time limit set whatever the caller's context holds
WithFreshTimeout(ctx) == <<now + DefaultTimeout>>

\* if _, hasDeadline := ctx.Deadline(); !hasDeadline { ctx, cancel =
\* context.WithTimeout(ctx, 30*time.Second) }: the deadline of the resulting ctx
WithDefaultTimeout(ctx) ==
  IF ctx = NoDeadline THEN <<now + DefaultTimeout>> ELSE ctx

\* ctx.Done() is closed: the deadline has come, and a call to the backing system
\* made with the ctx fails
Expired(deadline) == deadline # NoDeadline /\ now >= deadline[1]

Response(name, status, at, comps, message, events) ==
  [ParticipantName |-> name, Status |-> status, LastUpdated |-> at,
   Components |-> comps, Message |-> message, Events |-> events]

\* NotFoundResponse with LastUpdated left at its zero value
NotFoundResponseUnstamped(participantName) ==
  Response(participantName, StatusNotFound, 0, EmptyMap,
           <<"Participant ", participantName, " not found">>, <<>>)

\* the response built when the namespace does not exist
NotFoundResponse(participantName) ==
  Response(participantName, StatusNotFound, now, EmptyMap,
           <<"Namespace ", participantName, " does not exist">>, <<>>)

\* DeletingResponse carrying the statuses of the deployments of the scope
DeletingResponseWithComponents(participantName) ==
  Response(participantName, StatusDeleting, now,
           [w \in {namespaces[participantName].Deployments[i].Name :
                     i \in DOMAIN namespaces[participantName].Deployments} |->
              ComponentStatus("Unknown", FALSE, 1, 0, 0, <<>>)],
           <<"Namespace ", participantName, " is being deleted">>, <<>>)

\* the response built when the namespace has a DeletionTimestamp
DeletingResponse(participantName) ==
  Response(participantName, StatusDeleting, now, EmptyMap,
           <<"Namespace ", participantName, " is being deleted">>, <<>>)

\* errors.IsNotFound(err) of the namespace lookup
NamespaceNotFound(participantName) == participantName \notin DOMAIN namespaces

\* BeingDeleted with the deletion marker never seen
BeingDeletedNever(participantName) == FALSE

\* namespace.DeletionTimestamp != nil
BeingDeleted(participantName) == namespaces[participantName].Deleting

\* history: what the backing system holds for the scope when it is looked up
Reported(participantName) ==
  IF participantName \notin DOMAIN namespaces THEN "absent"
  ELSE IF namespaces[participantName].Deleting THEN "deleting"
  ELSE "live"

\* kubeClient.List(ctx, list, client.InNamespace(namespace)) of one kind
ListIn(namespace, kind) ==
  IF namespace \in DOMAIN namespaces THEN namespaces[namespace][kind] ELSE <<>>

\* for _, deployment := range items { components[deployment.Name] = eval(&deployment) }
RECURSIVE PutStatuses(_, _, _, _)
PutStatuses(comps, items, i, kind) ==
  IF i > Len(items) THEN comps
  ELSE PutStatuses(
         MapPut(comps, items[i].Name,
                IF kind = "Deployments" THEN GetDeploymentStatus(items[i])
                ELSE GetStatefulSetStatus(items[i])),
         items, i + 1, kind)

\* What is left of a call once it has returned: the locals of the call are gone;
\* the result stays known where the client remembers it.
Returned(c, call) ==
  IF c \in Observers
    THEN [call EXCEPT !.pc = "returned", !.deadline = NoDeadline,
                      !.ctx = NoDeadline, !.entered = 0]
    ELSE IdleCall

\* the caller holds a response for key that no invalidate or clear has followed
HoldsResult(c, key) ==
  /\ calls[c].pc = "returned"
  /\ calls[c].name = key
  /\ calls[c].err = ""
  /\ calls[c].since # "invalidated"

\* history: what the results held by the callers record when the entry changes
Touch(keys, how) ==
  [c \in Callers |->
     IF \E key \in keys : HoldsResult(c, key)
       THEN [calls[c] EXCEPT !.since = how]
       ELSE calls[c]]

\* The entry of GetParticipantStatus, called with a ctx, up to the cache lookup:
\* a hit returns.
Begin(c, participantName, ctx) ==
  /\ calls[c].pc \in {"idle", "returned"}
  /\ LET cached == CacheGet(participantName)
         repeat ==
           IF HoldsResult(c, participantName) /\ now <= calls[c].storedAt + TTL
             THEN <<calls[c].response[1].Status,
                    IF calls[c].since = "clean" THEN "unshared" ELSE "shared">>
             ELSE <<>>
         started ==
           [IdleCall EXCEPT !.name = participantName, !.repeat = repeat,
                            !.afterInvalidate = (participantName \in invalidated),
                            !.deadline = WithDefaultTimeout(ctx),
                            !.ctx = ctx, !.entered = now]
     IN  calls' =
           [calls EXCEPT ![c] =
              IF cached # <<>>
                THEN Returned(c, [started EXCEPT
                                    !.response = cached, !.hit = TRUE,
                                    !.since = "clean",
                                    !.identical = (cached = calls[c].response),
                                    !.storedAt = data[participantName].storedAt,
                                    !.crossed = data[participantName].crossed])
                ELSE [started EXCEPT !.pc = "getNamespace"]]
  /\ invalidated' = invalidated \ {participantName}
  /\ UNCHANGED <<now, namespaces, data, unswept, nextTick, got, aloneVars>>

\* Fail with the entry of the name, if the map still holds one, returned instead
\* of the error
FailWithCached(c, call, err) ==
  calls' = [calls EXCEPT ![c] =
              Returned(c, [@ EXCEPT
                             !.response =
                               IF calls[c].name \in DOMAIN data
                                 THEN <<data[calls[c].name].response>> ELSE <<>>,
                             !.err = IF calls[c].name \in DOMAIN data
                                       THEN "" ELSE err,
                             !.backingCalls = Append(@, call)])]

\* a failed backing call: return nil, fmt.Errorf(...)
Fail(c, call, err) ==
  calls' = [calls EXCEPT ![c] =
              Returned(c, [@ EXCEPT !.response = <<>>, !.err = err,
                                    !.backingCalls = Append(@, call)])]

\* kubeClient.Get of the namespace and the branches on its result
GetNamespace(c) ==
  /\ calls[c].pc = "getNamespace"
  /\ \/ Fail(c, "namespace", "failed to get namespace")
     \/ /\ ~Expired(calls[c].deadline)
        /\ calls' =
             [calls EXCEPT ![c] =
                LET name == calls[c].name
                    called == [calls[c] EXCEPT
                                 !.backingCalls = Append(@, "namespace"),
                                 !.saw = Reported(name)]
                IN  IF NamespaceNotFound(name)
                      THEN [called EXCEPT !.pc = "cacheSet",
                                          !.response = <<NotFoundResponse(name)>>]
                    ELSE IF BeingDeleted(name)
                      THEN [called EXCEPT !.pc = "cacheSet",
                                          !.response = <<DeletingResponse(name)>>]
                    ELSE [called EXCEPT !.pc = "listDeployments"]]
  /\ UNCHANGED <<now, namespaces, data, unswept, nextTick, invalidated, got, aloneVars>>

\* ListDeployments with the stateful sets listed first
ListStatefulSetsFirst(c) ==
  /\ calls[c].pc = "listDeployments"
  /\ \/ Fail(c, "statefulsets", "failed to get component statuses")
     \/ /\ ~Expired(calls[c].deadline)
        /\ calls' =
             [calls EXCEPT ![c] =
                [@ EXCEPT !.pc = "listStatefulSets",
                          !.backingCalls = Append(@, "statefulsets"),
                          !.comps = PutStatuses(EmptyMap,
                                      ListIn(calls[c].name, "StatefulSets"), 1,
                                      "StatefulSets")]]
  /\ UNCHANGED <<now, namespaces, data, unswept, nextTick, invalidated, got, aloneVars>>

\* getComponentStatuses: the deployment listing
ListDeployments(c) ==
  /\ calls[c].pc = "listDeployments"
  /\ \/ Fail(c, "deployments", "failed to get component statuses")
     \/ /\ ~Expired(calls[c].deadline)
        /\ calls' =
             [calls EXCEPT ![c] =
                [@ EXCEPT !.pc = "listStatefulSets",
                          !.backingCalls = Append(@, "deployments"),
                          !.comps = PutStatuses(EmptyMap,
                                      ListIn(calls[c].name, "Deployments"), 1,
                                      "Deployments")]]
  /\ UNCHANGED <<now, namespaces, data, unswept, nextTick, invalidated, got, aloneVars>>

\* getComponentStatuses: the stateful-set listing, then DetermineOverallStatus
ListStatefulSets(c) ==
  /\ calls[c].pc = "listStatefulSets"
  /\ \/ Fail(c, "statefulsets", "failed to get component statuses")
     \/ /\ ~Expired(calls[c].deadline)
        /\ calls' =
             [calls EXCEPT ![c] =
                LET comps == PutStatuses(calls[c].comps,
                               ListIn(calls[c].name, "StatefulSets"), 1,
                               "StatefulSets")
                IN  [@ EXCEPT !.pc = "listEvents",
                              !.backingCalls = Append(@, "statefulsets"),
                              !.comps = comps,
                              !.status = DetermineOverallStatus(comps)]]
  /\ UNCHANGED <<now, namespaces, data, unswept, nextTick, invalidated, got, aloneVars>>

\* what GetRecentEvents may return for the scope: ([]Event, nil) or (nil, err)
EventOutcomes(namespace) ==
  {[events |-> events, err |-> ""] :
     events \in GetRecentEvents(ListIn(namespace, "Events"), now)}
    \cup {[events |-> <<>>, err |-> "failed to list events"]}

\* WithEvents with an error of the event query returned to the caller
WithEventsOrError(call, outcome) ==
  IF outcome.err # ""
    THEN [call EXCEPT !.pc = "returned", !.response = <<>>,
                      !.err = "failed to get events"]
    ELSE [call EXCEPT !.pc = "cacheSet",
                      !.response =
                        <<Response(call.name, call.status[1], now, call.comps,
                                   call.status[2], outcome.events)>>]

\* if err != nil { events = []Event{} } and the response built with time.Now()
WithEvents(call, outcome) ==
  LET events == IF outcome.err # "" THEN <<>> ELSE outcome.events
  IN  [call EXCEPT !.pc = "cacheSet",
                   !.response =
                     <<Response(call.name, call.status[1], now, call.comps,
                                call.status[2], events)>>]

\* GetRecentEvents, its error handled, and the response built
ListEvents(c) ==
  /\ calls[c].pc = "listEvents"
  /\ \E outcome \in EventOutcomes(calls[c].name) :
       /\ outcome.err = "" => ~Expired(calls[c].deadline)
       /\ calls' =
            [calls EXCEPT ![c] =
               WithEvents([@ EXCEPT !.backingCalls = Append(@, "events"),
                                    !.eventsErr = outcome.err],
                          outcome)]
  /\ UNCHANGED <<now, namespaces, data, unswept, nextTick, invalidated, got, aloneVars>>

\* history: the entry of the call just written is marked when an invalidate
\* crossed the call
Marked(m, c) ==
  IF calls[c].name \in DOMAIN m
    THEN [m EXCEPT ![calls[c].name].crossed = calls[c].crossed]
    ELSE m

\* StoreAndReturn that drops the response when an invalidate of the name ran
\* since the call built it
StoreUnlessInvalidated(c) ==
  /\ calls[c].pc = "cacheSet"
  /\ IF calls[c].crossed
       THEN UNCHANGED <<data, unswept>>
       ELSE /\ data' = CacheSet(calls[c].name, calls[c].response[1])
            /\ unswept' = MapPut(unswept, calls[c].name,
                                 CacheEntry(calls[c].response[1], now))
  /\ calls' =
       [Touch({calls[c].name}, "overwritten") EXCEPT ![c] =
          Returned(c, [calls[c] EXCEPT !.since = "clean", !.storedAt = now])]
  /\ UNCHANGED <<now, namespaces, nextTick, invalidated, got, aloneVars>>

\* sc.cache.set(participantName, response); return response, nil
StoreAndReturn(c) ==
  /\ calls[c].pc = "cacheSet"
  /\ data' = Marked(CacheSet(calls[c].name, calls[c].response[1]), c)
  /\ unswept' = Marked(MapPut(unswept, calls[c].name,
                              CacheEntry(calls[c].response[1], now)), c)
  /\ calls' =
       [Touch({calls[c].name}, "overwritten") EXCEPT ![c] =
          Returned(c, [calls[c] EXCEPT !.since = "clean", !.storedAt = now])]
  /\ UNCHANGED <<now, namespaces, nextTick, invalidated, got, aloneVars>>

\* history: the calls that hold a response for the name and have not written it
\* are crossed by the invalidate
Cross(cs, participantName) ==
  [c \in Callers |->
     IF cs[c].pc = "cacheSet" /\ cs[c].name = participantName
       THEN [cs[c] EXCEPT !.crossed = TRUE]
       ELSE cs[c]]

\* a call holds a response for the name that it has not yet written
HeldUnwritten(participantName) ==
  \E c \in Callers :
    calls[c].pc = "cacheSet" /\ calls[c].name = participantName

\* InvalidateCache run while a call holds a response for the name that it has
\* not yet written, with that noted in the history of the call
InvalidateInFlight(participantName) ==
  /\ HeldUnwritten(participantName)
  /\ data' = CacheInvalidate(participantName)
  /\ unswept' = [k \in (DOMAIN unswept) \ {participantName} |-> unswept[k]]
  /\ calls' = Cross(Touch({participantName}, "invalidated"), participantName)
  /\ invalidated' = invalidated \cup {participantName}
  /\ got' = <<>>
  /\ UNCHANGED <<now, namespaces, nextTick, aloneVars>>

\* InvalidateCache
InvalidateCache(participantName) ==
  /\ data' = CacheInvalidate(participantName)
  /\ unswept' = [k \in (DOMAIN unswept) \ {participantName} |-> unswept[k]]
  /\ calls' = Touch({participantName}, "invalidated")
  /\ invalidated' = invalidated \cup {participantName}
  /\ got' = <<>>
  /\ UNCHANGED <<now, namespaces, nextTick, aloneVars>>

\* ClearCache
ClearCache ==
  /\ data' = CacheClear
  /\ unswept' = EmptyMap
  /\ calls' = Touch(Names, "invalidated")
  /\ got' = <<>>
  /\ UNCHANGED <<now, namespaces, nextTick, invalidated, aloneVars>>

\* the ticker branch of cleanup()
Cleanup ==
  /\ reaper = "select"
  /\ now >= nextTick
  /\ data' = CleanupSweep
  /\ UNCHANGED unswept
  /\ nextTick' = nextTick + CleanupInterval
  /\ got' = <<>>
  /\ UNCHANGED <<now, namespaces, calls, invalidated, aloneVars>>

----------------------------------------------------------------------------
(* Environment: the clock and the backing system *)

Tick ==
  /\ now + Quantum <= MaxTime
  /\ now' = now + Quantum
  /\ got' = <<>>
  /\ UNCHANGED <<namespaces, data, unswept, nextTick, calls, invalidated, aloneVars>>

\* the scope is created with its workloads
ApplyScope(name, scope) ==
  /\ name \notin DOMAIN namespaces
  /\ namespaces' = MapPut(namespaces, name, scope)
  /\ UNCHANGED <<now, data, unswept, nextTick, calls, invalidated, got, aloneVars>>

\* deletion of the scope is requested: its deletion marker is set
DeleteScope(name) ==
  /\ name \in DOMAIN namespaces
  /\ ~namespaces[name].Deleting
  /\ namespaces' = [namespaces EXCEPT ![name].Deleting = TRUE]
  /\ UNCHANGED <<now, data, unswept, nextTick, calls, invalidated, got, aloneVars>>

----------------------------------------------------------------------------
(* Specification of the status checker with its cache: two concurrent callers *)
(* of GetParticipantStatus, invalidation, the reaper, the clock, and a scope  *)
(* that is created and later marked for deletion.                             *)

\* no function has been evaluated on its own
ReducerUnused ==
  /\ components = EmptyMap
  /\ overall = <<>>
  /\ again = <<>>

EvaluatorUnused ==
  /\ workload = Workload("", <<>>, 0, 0, 0)
  /\ evaluated = [deployment |-> <<>>, statefulSet |-> <<>>]

EventsUnused ==
  /\ listed = <<>>
  /\ recent = <<>>

\* the locals of a ListParticipants call, and its result once it is done:
\*   pc            "idle", "probe" (at the head of the loop over the namespaces),
\*                 "status" (in the GetParticipantStatus of namespace i), "done"
\*   items         namespaceList.Items, by name
\*   participants  the summaries appended so far
\*   result        <<>>, or <<[participants, total, err, panic]>>
\*   deadline      the deadline of the ctx of the call (<<>> outside the call)
\*   ctx, entered  history: the ctx the caller passed and the time of the entry
\* and the history of the call:
\*   probed        the namespaces whose deployments hasParticipantDeployments listed
\*   asked         the namespaces GetParticipantStatus was called for and returned
\*   failed        the namespaces skipped on an error of either
\*   statuses      the responses GetParticipantStatus returned, in order
ListIdle ==
  [pc |-> "idle", statusFilter |-> "", page |-> 0, limit |-> 0, items |-> <<>>,
   i |-> 0, participants |-> <<>>, result |-> <<>>,
   probed |-> <<>>, asked |-> <<>>, failed |-> {}, statuses |-> <<>>,
   deadline |-> <<>>, ctx |-> <<>>, entered |-> 0]

ListUnused == listing = ListIdle

\* the cache instances whose locking is looked at
Instances == {"a", "b"}

\* the goroutines of the requests, and the reaper of each instance
Requests == {"g1", "g2"}

Reapers == {"ra", "rb"}

ReaperOf(instance) == IF instance = "a" THEN "ra" ELSE "rb"

\* a goroutine that is in no cache operation
\*   pc      "idle", "waiting" (in Lock or RLock), "inside" (holding the lock),
\*           "done" (a reaper after its sweep)
\*   result  what the last get returned (<<>> is nil)
NoOp == [pc |-> "idle", op |-> "", cache |-> "", key |-> "", result |-> <<>>]

\* no operation is under way on any instance
LocksFree ==
  /\ mu = [instance \in Instances |-> [readers |-> 0, writer |-> FALSE]]
  /\ maps = [instance \in Instances |-> EmptyMap]
  /\ ops = [g \in Requests \cup Reapers |-> NoOp]

\* newStatusCache: the stop channel is made and the reaper started
CacheStarted ==
  /\ stopChan = "open"
  /\ reaper = "select"
  /\ crashed = FALSE

\* resources/participant.json, embedded into participantJson: the text, by
\* the placeholders that seedIdentityHubData replaces in it; a text is a
\* sequence of pieces, each a sequence of strings
ParticipantTemplate ==
  <<<<"${PARTICIPANT_NAME}">>, <<"${PARTICIPANT_DID}">>,
    <<"${PARTICIPANT_DID_BASE64}">>, <<"${IH_BASE_URL}">>, <<"${EDC_BASE_URL}">>>>

\* the goroutines that run the readiness callback of a create request
Seeders == {"s1", "s2"}

\* the ParticipantDefinition of the create requests
Definitions ==
  {[ParticipantName |-> "alpha", Did |-> "did:web:alpha",
    KubernetesIngressHost |-> "localhost"],
   [ParticipantName |-> "beta", Did |-> "did:web:beta",
    KubernetesIngressHost |-> "localhost"]}

\* a callback that has not started
\*   pc    "idle", "load" (about to read participantJson for replacement k),
\*         "store" (about to assign the replaced text), "send", "done"
\*   text  the value of participantJson read for the replacement under way
\*   body  the body handed to CreateParticipant (<<>> before)
IdleSeed == [pc |-> "idle", definition |-> <<>>, k |-> 0, text |-> <<>>,
             body |-> <<>>]

\* Centralize deployment names used for readiness checks
participantDeploymentNames == <<"controlplane", "identityhub", "dataplane">>

\* a deployment as applied: Spec.Replicas (<<>> is nil) and Status.ReadyReplicas
NewDeployments ==
  {[Replicas |-> <<>>, ReadyReplicas |-> 0], [Replicas |-> <<2>>, ReadyReplicas |-> 1]}

\* context.Background(): never cancelled, no deadline
Background == [cancellable |-> FALSE, done |-> FALSE]

\* a goroutine of waitForDeployment that has not started
\*   pc      "idle", "get", "select", "returned" (result in hand), "done" (sent)
\*   result  <<>> before the return, then <<err>> ("" is nil)
\*   seen    history: the deployment as the Get returned it that ended the
\*           wait with nil (<<>> if none)
IdleWaiter == [pc |-> "idle", result |-> <<>>, seen |-> <<>>]

\* the goroutine started by waitForDeploymentsAsync, before the call
\*   pc        "idle", "receiving" (in the loop of waitForDeployments),
\*             "returned" (waitForDeployments has returned firstErr), "ended"
\*   received  the results taken from errCh
\*   firstErr  "" is nil
\*   callbacks how many times callback() ran
IdleCollector == [pc |-> "idle", received |-> 0, firstErr |-> "", callbacks |-> 0]

\* no participant is being created
NotProvisioning ==
  /\ participantJson = ParticipantTemplate
  /\ seeds = [g \in Seeders |-> IdleSeed]
  /\ cluster = [name \in Range(participantDeploymentNames) |->
                  [Replicas |-> <<>>, ReadyReplicas |-> 0]]
  /\ waitCtx = Background
  /\ waiters = [name \in Range(participantDeploymentNames) |-> IdleWaiter]
  /\ errCh = <<>>
  /\ collector = IdleCollector

NothingAlone ==
  /\ ReducerUnused
  /\ EvaluatorUnused
  /\ EventsUnused
  /\ ListUnused
  /\ CacheStarted
  /\ LocksFree
  /\ NotProvisioning

\* the status checker has just been constructed and is not used
CheckerUnused ==
  /\ now = 0
  /\ namespaces = EmptyMap
  /\ data = EmptyMap
  /\ unswept = EmptyMap
  /\ nextTick = CleanupInterval
  /\ calls = [c \in Callers |-> IdleCall]
  /\ invalidated = {}
  /\ got = <<>>

Init ==
  /\ now = StartTime
  /\ namespaces = EmptyMap
  /\ data = EmptyMap
  /\ unswept = EmptyMap
  /\ nextTick = CleanupInterval
  /\ calls = [c \in Callers |-> IdleCall]
  /\ invalidated = {}
  /\ got = <<>>
  /\ NothingAlone

Next ==
  \/ \E c \in Callers : \E name \in Names : Begin(c, name, NoDeadline)
  \/ \E c \in Callers : GetNamespace(c)
  \/ \E c \in Callers : ListDeployments(c)
  \/ \E c \in Callers : ListStatefulSets(c)
  \/ \E c \in Callers : ListEvents(c)
  \/ \E c \in Callers : StoreAndReturn(c)
  \/ \E name \in Names : InvalidateCache(name)
  \/ ClearCache
  \/ Cleanup
  \/ Tick
  \/ \E name \in Names : \E scope \in ScopeChoices : ApplyScope(name, scope)
  \/ \E name \in Names : DeleteScope(name)

Spec == Init /\ [][Next]_vars

----------------------------------------------------------------------------
(* Specification of the status checker with its cache in which the history   *)
(* notes every invalidate that runs while a call holds an unwritten response; *)
(* the scope is created with its workloads ready and is not deleted.          *)

RaceNext ==
  \/ \E c \in Callers : \E name \in Names : Begin(c, name, NoDeadline)
  \/ \E c \in Callers : GetNamespace(c)
  \/ \E c \in Callers : ListDeployments(c)
  \/ \E c \in Callers : ListStatefulSets(c)
  \/ \E c \in Callers : ListEvents(c)
  \/ \E c \in Callers : StoreAndReturn(c)
  \/ \E name \in Names : ~HeldUnwritten(name) /\ InvalidateCache(name)
  \/ \E name \in Names : InvalidateInFlight(name)
  \/ ClearCache
  \/ Cleanup
  \/ Tick
  \/ \E name \in Names : ApplyScope(name, ReadyScope)

RaceSpec == Init /\ [][RaceNext]_vars

----------------------------------------------------------------------------
(* Specification of the cache on its own: get, set, invalidate, clear and the *)
(* reaper, from construction on.                                              *)

\* history: what the same get returns on the twin cache
TwinGet(key) ==
  IF key \notin DOMAIN unswept \/ now > unswept[key].expiresAt
    THEN <<>>
    ELSE <<unswept[key].response>>

\* a direct get(key); its result is remembered until the next step
Get(key) ==
  /\ got' = [key |-> key, result |-> CacheGet(key), twin |-> TwinGet(key)]
  /\ UNCHANGED <<now, namespaces, data, unswept, nextTick, calls, invalidated, aloneVars>>

\* a direct set(key, response)
Set(key, response) ==
  /\ data' = CacheSet(key, response)
  /\ unswept' = MapPut(unswept, key, CacheEntry(response, now))
  /\ got' = <<>>
  /\ UNCHANGED <<now, namespaces, nextTick, calls, invalidated, aloneVars>>

CacheInit ==
  /\ now = 0
  /\ namespaces = EmptyMap
  /\ data = EmptyMap
  /\ unswept = EmptyMap
  /\ nextTick = CleanupInterval
  /\ calls = [c \in Callers |-> IdleCall]
  /\ invalidated = {}
  /\ got = <<>>
  /\ NothingAlone

CacheNext ==
  \/ \E key \in Keys : Get(key)
  \/ \E key \in Keys :
       \E response \in {NotFoundResponse(key), DeletingResponse(key)} :
         Set(key, response)
  \/ \E key \in Keys : InvalidateCache(key)
  \/ ClearCache
  \/ Cleanup
  \/ Tick

CacheSpec == CacheInit /\ [][CacheNext]_vars

----------------------------------------------------------------------------
(* Specification of the life cycle of the cache: the operations of CacheSpec,  *)
(* stop() called any number of times, and the reaper, which returns once it    *)
(* finds the stop channel closed. A panic outside a request ends the process.  *)

\* stop(): close(c.stopChan); the close of a closed channel is a run-time panic,
\* which nothing recovers
Stop ==
  /\ ~crashed
  /\ IF stopChan = "closed"
       THEN crashed' = TRUE /\ UNCHANGED stopChan
       ELSE stopChan' = "closed" /\ UNCHANGED crashed
  /\ got' = <<>>
  /\ UNCHANGED <<now, namespaces, data, unswept, nextTick, calls, invalidated, reaper,
                 reducerVars, evaluatorVars, eventVars, listVars, lockVars, provisionVars>>

\* Terminate with a select that has no case for the stop channel
IgnoreStop ==
  /\ FALSE
  /\ UNCHANGED vars

\* the stop branch of the select of cleanup(): the receive from a closed
\* channel proceeds and the goroutine returns
Terminate ==
  /\ ~crashed
  /\ reaper = "select"
  /\ stopChan = "closed"
  /\ reaper' = "returned"
  /\ got' = <<>>
  /\ UNCHANGED <<now, namespaces, data, unswept, nextTick, calls, invalidated, stopChan,
                 crashed, reducerVars, evaluatorVars, eventVars, listVars,
                 lockVars, provisionVars>>

\* the clock advances, but not while the reaper is runnable on the closed stop
\* channel: the scheduler runs a runnable goroutine well within one Quantum
Pass ==
  /\ ~(stopChan = "closed" /\ reaper = "select")
  /\ Tick

LifeNext ==
  \/ Stop
  \/ Terminate
  \/ ~crashed /\ \E key \in Keys : Get(key)
  \/ ~crashed /\ \E key \in Keys : Set(key, NotFoundResponse(key))
  \/ ~crashed /\ \E key \in Keys : InvalidateCache(key)
  \/ ~crashed /\ ClearCache
  \/ ~crashed /\ Cleanup
  \/ ~crashed /\ Pass

\* the scheduler runs the reaper when it can proceed
LifeSpec == CacheInit /\ [][LifeNext]_vars /\ WF_vars(Terminate)

----------------------------------------------------------------------------
(* Specification of the locking: two cache instances, each with an entry that *)
(* has expired, at the time of the first tick; two request goroutines in get, *)
(* set, invalidate and clear on either instance, and the sweep of each reaper. *)

\* Mode with invalidate under the read lock
ModeInvalidateShared(op) ==
  IF op \in {"get", "invalidate"} THEN "shared" ELSE "exclusive"

\* get takes c.mu.RLock(); set, invalidate, clear and the sweep c.mu.Lock()
Mode(op) == IF op = "get" THEN "shared" ELSE "exclusive"

\* RLock returns when no writer holds the lock, Lock when nobody holds it. (A
\* waiting writer may hold later readers back; here they may also pass.)
CanLock(instance, mode) ==
  IF mode = "shared"
    THEN ~mu[instance].writer
    ELSE ~mu[instance].writer /\ mu[instance].readers = 0

\* the lock once taken, and once given back
Locked(lock, mode) ==
  IF mode = "shared"
    THEN [lock EXCEPT !.readers = @ + 1]
    ELSE [lock EXCEPT !.writer = TRUE]

Unlocked(lock, mode) ==
  IF mode = "shared"
    THEN [lock EXCEPT !.readers = @ - 1]
    ELSE [lock EXCEPT !.writer = FALSE]

\* what the operation does to the map of its instance between lock and unlock
MapAfter(m, op, key) ==
  CASE op = "set" -> MapPut(m, key, CacheEntry(NotFoundResponse(key), now))
    [] op = "invalidate" -> [k \in (DOMAIN m) \ {key} |-> m[k]]
    [] op = "clear" -> EmptyMap
    [] op = "sweep" -> [k \in {x \in DOMAIN m : ~(now > m[x].expiresAt)} |-> m[k]]
    [] OTHER -> m

\* what get returns from the map
Found(m, key) ==
  IF key \notin DOMAIN m \/ now > m[key].expiresAt
    THEN <<>>
    ELSE <<m[key].response>>

\* a request goroutine enters an operation, up to its call of Lock or RLock
Enter(g, op, instance, key) ==
  /\ ops[g].pc = "idle"
  /\ ops' = [ops EXCEPT ![g] = [pc |-> "waiting", op |-> op, cache |-> instance,
                                key |-> IF op = "clear" THEN "" ELSE key,
                                result |-> <<>>]]
  /\ UNCHANGED <<checkerVars, reducerVars, evaluatorVars, eventVars, listVars,
                 lifeVars, provisionVars, mu, maps>>

\* the ticker of an instance delivers its tick: the reaper calls Lock
ReceiveTick(instance) ==
  /\ ops[ReaperOf(instance)].pc = "idle"
  /\ now >= nextTick
  /\ ops' = [ops EXCEPT ![ReaperOf(instance)] =
                [pc |-> "waiting", op |-> "sweep", cache |-> instance,
                 key |-> "", result |-> <<>>]]
  /\ UNCHANGED <<checkerVars, reducerVars, evaluatorVars, eventVars, listVars,
                 lifeVars, provisionVars, mu, maps>>

\* Lock or RLock returns
Acquire(g) ==
  /\ ops[g].pc = "waiting"
  /\ CanLock(ops[g].cache, Mode(ops[g].op))
  /\ mu' = [mu EXCEPT ![ops[g].cache] = Locked(@, Mode(ops[g].op))]
  /\ ops' = [ops EXCEPT ![g].pc = "inside"]
  /\ UNCHANGED <<checkerVars, reducerVars, evaluatorVars, eventVars, listVars,
                 lifeVars, provisionVars, maps>>

\* the body of the operation and its Unlock or RUnlock
Leave(g) ==
  /\ ops[g].pc = "inside"
  /\ maps' = [maps EXCEPT ![ops[g].cache] = MapAfter(@, ops[g].op, ops[g].key)]
  /\ mu' = [mu EXCEPT ![ops[g].cache] = Unlocked(@, Mode(ops[g].op))]
  /\ ops' = [ops EXCEPT ![g] =
                [NoOp EXCEPT
                   !.pc = IF g \in Reapers THEN "done" ELSE "idle",
                   !.result = IF ops[g].op = "get"
                                THEN Found(maps[ops[g].cache], ops[g].key)
                                ELSE <<>>]]
  /\ UNCHANGED <<checkerVars, reducerVars, evaluatorVars, eventVars, listVars,
                 lifeVars, provisionVars>>

\* what each map holds at the start: an entry set one Quantum before StartTime
ExpiredEntry ==
  MapPut(EmptyMap, "alpha",
         CacheEntry(NotFoundResponse("alpha"), StartTime - Quantum))

LockInit ==
  /\ now = CleanupInterval
  /\ namespaces = EmptyMap
  /\ data = EmptyMap
  /\ unswept = EmptyMap
  /\ nextTick = CleanupInterval
  /\ calls = [c \in Callers |-> IdleCall]
  /\ invalidated = {}
  /\ got = <<>>
  /\ ReducerUnused
  /\ EvaluatorUnused
  /\ EventsUnused
  /\ ListUnused
  /\ stopChan = "open"
  /\ reaper = "select"
  /\ crashed = FALSE
  /\ mu = [instance \in Instances |-> [readers |-> 0, writer |-> FALSE]]
  /\ maps = [instance \in Instances |-> ExpiredEntry]
  /\ ops = [g \in Requests \cup Reapers |-> NoOp]
  /\ NotProvisioning

LockNext ==
  \/ \E g \in Requests : \E op \in {"get", "set", "invalidate", "clear"} :
       \E instance \in Instances : Enter(g, op, instance, "alpha")
  \/ \E instance \in Instances : ReceiveTick(instance)
  \/ \E g \in Requests \cup Reapers : Acquire(g)
  \/ \E g \in Requests \cup Reapers : Leave(g)

LockSpec == LockInit /\ [][LockNext]_vars

----------------------------------------------------------------------------
(* Specification of the reducer on its own: any mapping of the sampled names  *)
(* to the sampled component statuses, then DetermineOverallStatus.            *)

ComponentMappings ==
  UNION {[names -> SampleStatuses] : names \in SUBSET ComponentNames}

Reduce ==
  /\ overall = <<>>
  /\ overall' = DetermineOverallStatus(components)
  /\ UNCHANGED <<checkerVars, components, again, evaluatorVars, eventVars, listVars, lifeVars,
                 lockVars, provisionVars>>

\* the same mapping is reduced once more, the range over the map visiting the
\* keys in any order
ReduceAgain ==
  /\ overall # <<>>
  /\ again = <<>>
  /\ \E order \in IterationOrders(DOMAIN components) :
       again' = [order |-> order,
                 result |-> DetermineOverallStatusIn(components, order)]
  /\ UNCHANGED <<checkerVars, components, overall, evaluatorVars, eventVars, listVars, lifeVars,
                 lockVars, provisionVars>>

ReducerInit ==
  /\ CheckerUnused
  /\ components \in ComponentMappings
  /\ overall = <<>>
  /\ again = <<>>
  /\ EvaluatorUnused
  /\ EventsUnused
  /\ ListUnused
  /\ CacheStarted
  /\ LocksFree
  /\ NotProvisioning

ReducerNext == Reduce

ReducerSpec == ReducerInit /\ [][ReducerNext]_vars

----------------------------------------------------------------------------
(* Specification of the reducer evaluated twice on one mapping, the second    *)
(* time with the order of the range over the map chosen freely.               *)

\* the mappings of the critical names and two other names to a ready and a
\* not-ready status
OrderedMappings ==
  UNION {[names -> {GetDeploymentStatus(Workload("w", <<>>, 1, 1, 0)),
                    GetStatefulSetStatus(Workload("w", <<1>>, 2, 2, 0))}] :
           names \in SUBSET (ComponentNames \cup {"ingress"})}

OrderInit ==
  /\ CheckerUnused
  /\ components \in OrderedMappings
  /\ overall = <<>>
  /\ again = <<>>
  /\ EvaluatorUnused
  /\ EventsUnused
  /\ ListUnused
  /\ CacheStarted
  /\ LocksFree
  /\ NotProvisioning

OrderNext ==
  \/ Reduce
  \/ ReduceAgain

OrderSpec == OrderInit /\ [][OrderNext]_vars

----------------------------------------------------------------------------
(* Specification of the component evaluators on their own: any workload with  *)
(* counts up to MaxReplicas, evaluated as a Deployment and as a StatefulSet.  *)

\* the largest replica count of the workloads evaluated
MaxReplicas == 3

Workloads ==
  {Workload("w", specReplicas, replicas, ready, unavailable) :
     specReplicas \in {<<>>} \cup {<<n>> : n \in 0..MaxReplicas},
     replicas \in 0..MaxReplicas,
     ready \in 0..MaxReplicas,
     unavailable \in 0..MaxReplicas}

EvaluateDeployment ==
  /\ evaluated.deployment = <<>>
  /\ evaluated' = [evaluated EXCEPT !.deployment = <<GetDeploymentStatus(workload)>>]
  /\ UNCHANGED <<checkerVars, reducerVars, workload, eventVars, listVars, lifeVars,
                 lockVars, provisionVars>>

EvaluateStatefulSet ==
  /\ evaluated.statefulSet = <<>>
  /\ evaluated' = [evaluated EXCEPT !.statefulSet = <<GetStatefulSetStatus(workload)>>]
  /\ UNCHANGED <<checkerVars, reducerVars, workload, eventVars, listVars, lifeVars,
                 lockVars, provisionVars>>

EvaluatorInit ==
  /\ CheckerUnused
  /\ ReducerUnused
  /\ EventsUnused
  /\ ListUnused
  /\ CacheStarted
  /\ LocksFree
  /\ NotProvisioning
  /\ workload \in Workloads
  /\ evaluated = [deployment |-> <<>>, statefulSet |-> <<>>]

EvaluatorNext ==
  \/ EvaluateDeployment
  \/ EvaluateStatefulSet

EvaluatorSpec == EvaluatorInit /\ [][EvaluatorNext]_vars

----------------------------------------------------------------------------
(* Specification of the event collector on its own: a listing of the scope's  *)
(* activity records, then GetRecentEvents at time now.                        *)

\* the ages in seconds, at the time of the call, of the records a listing may
\* hold, in the order of the listing: twelve are younger than EventWindow (two
\* pairs of them of equal age), one is exactly EventWindow old, one is older
EventAges == <<100, 1800, 40, 900, 1900, 700, 20, 900, 40, 1799, 5, 300, 500, 800>>

\* the listing of n records that starts after the first skip records of
\* EventAges and wraps around
Listing(skip, n) ==
  [i \in 1..n |->
     LET k == ((skip + i - 1) % Len(EventAges)) + 1
     IN  [LastTimestamp |-> 0 - EventAges[k],
          Type |-> IF k % 2 = 0 THEN "Warning" ELSE "Normal",
          Message |-> <<"record ", ToString(k)>>]]

Listings ==
  {Listing(skip, n) : skip \in 0..(Len(EventAges) - 1), n \in 0..Len(EventAges)}

\* GetRecentEvents with a listing that succeeds
Collect ==
  /\ recent = <<>>
  /\ \E events \in GetRecentEvents(listed, now) :
       recent' = <<[events |-> events, err |-> ""]>>
  /\ UNCHANGED <<checkerVars, reducerVars, evaluatorVars, listed, listVars, lifeVars,
                 lockVars, provisionVars>>

\* GetRecentEvents with a listing that fails: return nil, fmt.Errorf(...)
CollectFails ==
  /\ recent = <<>>
  /\ recent' = <<[events |-> <<>>, err |-> "failed to list events"]>>
  /\ UNCHANGED <<checkerVars, reducerVars, evaluatorVars, listed, listVars, lifeVars,
                 lockVars, provisionVars>>

EventInit ==
  /\ CheckerUnused
  /\ ReducerUnused
  /\ EvaluatorUnused
  /\ ListUnused
  /\ CacheStarted
  /\ LocksFree
  /\ NotProvisioning
  /\ listed \in Listings
  /\ recent = <<>>

EventNext ==
  \/ Collect
  \/ CollectFails

EventSpec == EventInit /\ [][EventNext]_vars

----------------------------------------------------------------------------
(* Specification of ListParticipants: one call at a time over a fixed set of  *)
(* namespaces, its GetParticipantStatus calls included, any backing call of   *)
(* which may fail.                                                            *)

systemNamespaces == <<"kube-system", "kube-public", "kube-node-lease", "default">>

\* IsSystemNamespace that knows the kube- namespaces only
IsSystemNamespaceKubeOnly(name) ==
  \E i \in 1..3 : name = systemNamespaces[i]

IsSystemNamespace(name) ==
  \E i \in DOMAIN systemNamespaces : name = systemNamespaces[i]

provisionerDeployments == <<"controlplane", "dataplane", "identityhub", "postgres">>

isProvisionerDeployment(name) ==
  \E i \in DOMAIN provisionerDeployments : name = provisionerDeployments[i]

\* hasParticipantDeployments looking at the stateful sets as well
hasParticipantWorkloads(namespace) ==
  \E kind \in {"Deployments", "StatefulSets"} :
    \E i \in DOMAIN ListIn(namespace, kind) :
      isProvisionerDeployment(ListIn(namespace, kind)[i].Name)

\* the result of hasParticipantDeployments when its listing succeeds
hasParticipantDeployments(namespace) ==
  \E i \in DOMAIN ListIn(namespace, "Deployments") :
    isProvisionerDeployment(ListIn(namespace, "Deployments")[i].Name)

\* ParticipantSummary stamped with the time of the listing
ParticipantSummaryStampedNow(name, status) ==
  [ParticipantName |-> name, Status |-> status.Status, LastUpdated |-> now]

ParticipantSummary(name, status) ==
  [ParticipantName |-> name, Status |-> status.Status,
   LastUpdated |-> status.LastUpdated]

\* the second pass over participants that keeps those with the status asked
FilterByStatus(participants, statusFilter) ==
  IF statusFilter # ""
    THEN SelectSeq(participants, LAMBDA summary : summary.Status = statusFilter)
    ELSE participants

\* what the function returns: the page, the total and the error, or a panic
ListResult(participants, total, err, panic) ==
  [participants |-> participants, total |-> total, err |-> err, panic |-> panic]

\* participants[low:high] of a slice of length and capacity len: the run-time
\* panics unless 0 <= low <= high <= len
SliceInRange(len, low, high) == 0 <= low /\ low <= high /\ high <= len

\* Paginate with the page counted from zero
PaginateFromZero(participants, page, limit) ==
  LET total == Len(participants)
      start == page * limit
      end == IF start + limit > total THEN total ELSE start + limit
  IN  IF start >= total \/ ~SliceInRange(total, start, end)
        THEN ListResult(<<>>, total, "", FALSE)
        ELSE ListResult(SubSeq(participants, start + 1, end), total, "", FALSE)

\* total := len(participants) and the in-memory pagination
Paginate(participants, page, limit) ==
  LET total == Len(participants)
      start == (page - 1) * limit
      end == start + limit
  IN  IF start >= total
        THEN ListResult(<<>>, total, "", FALSE)
      ELSE
        LET clamped == IF end > total THEN total ELSE end
        IN  IF SliceInRange(total, start, clamped)
              THEN ListResult(SubSeq(participants, start + 1, clamped), total,
                              "", FALSE)
              ELSE ListResult(<<>>, 0, "", TRUE)

\* the goroutine that runs ListParticipants and its GetParticipantStatus calls
Lister == "c1"

\* the filters, pages and limits ListParticipants is called with
StatusFilters == {"", StatusReady, StatusDegraded}

Pages == (0 - 1)..4

Limits == (0 - 1)..3

\* the namespaces of the cluster, in the order the listing returns them
NamespaceOrder ==
  <<"alpha", "beta", "default", "delta", "gamma", "kube-system", "omega", "zeta">>

\* what they hold: alpha, gamma and zeta are ready participants, beta is a
\* starting one, omega one being deleted; delta has no provisioner deployment
\* (its postgres is a stateful set); default is a system namespace with the
\* workloads of a participant
ListedScopes ==
  LET ready == [ReadyScope EXCEPT !.Events = <<>>]
      starting == [StartingScope EXCEPT !.Events = <<>>]
  IN  [name \in Range(NamespaceOrder) |->
         CASE name \in {"alpha", "gamma", "zeta", "default"} -> ready
           [] name = "beta" -> starting
           [] name = "omega" -> [ready EXCEPT !.Deleting = TRUE]
           [] name = "delta" ->
                [ready EXCEPT !.Deployments = <<Workload("vault", <<>>, 1, 1, 0)>>]
           [] OTHER -> [ready EXCEPT !.Deployments = <<>>, !.StatefulSets = <<>>]]

\* the entry of ListParticipants and the listing of the namespaces; page and
\* limit, which nothing reads before the pagination, are drawn there
StartList(statusFilter, ctx) ==
  /\ listing.pc = "idle"
  /\ \/ listing' = [listing EXCEPT
                       !.pc = "done", !.statusFilter = statusFilter,
                       !.ctx = ctx, !.entered = now,
                       !.result = <<ListResult(<<>>, 0, "failed to list namespaces",
                                               FALSE)>>]
     \/ /\ ~Expired(WithDefaultTimeout(ctx))
        /\ listing' = [listing EXCEPT
                          !.pc = "probe", !.statusFilter = statusFilter,
                          !.deadline = WithDefaultTimeout(ctx),
                          !.ctx = ctx, !.entered = now,
                          !.items = SelectSeq(NamespaceOrder,
                                        LAMBDA name : name \in DOMAIN namespaces),
                          !.i = 1]
  /\ UNCHANGED <<checkerVars, reducerVars, evaluatorVars, eventVars, lifeVars,
                 lockVars, provisionVars>>

\* the head of the loop body for namespace i: the system namespaces are skipped,
\* then those whose probe fails or finds no provisioner deployment
Probe ==
  /\ listing.pc = "probe"
  /\ listing.i <= Len(listing.items)
  /\ LET name == listing.items[listing.i]
         skip == [listing EXCEPT !.i = @ + 1]
         probed == Append(listing.probed, name)
     IN  IF IsSystemNamespace(name)
           THEN listing' = skip
           ELSE \/ listing' = [skip EXCEPT !.probed = probed,
                                           !.failed = @ \cup {name}]
                \/ /\ ~Expired(listing.deadline)
                   /\ listing' = IF hasParticipantDeployments(name)
                                   THEN [listing EXCEPT !.pc = "status",
                                                        !.probed = probed]
                                   ELSE [skip EXCEPT !.probed = probed]
  /\ UNCHANGED <<checkerVars, reducerVars, evaluatorVars, eventVars, lifeVars,
                 lockVars, provisionVars>>

\* sc.GetParticipantStatus(ctx, ns.Name) is entered
GetStatus ==
  /\ listing.pc = "status"
  /\ calls[Lister].pc = "idle"
  /\ Begin(Lister, listing.items[listing.i], listing.deadline)

\* Summarize with an error of GetParticipantStatus returned to the caller
SummarizeAbortsOnError ==
  /\ listing.pc = "status"
  /\ calls[Lister].pc = "returned"
  /\ LET name == listing.items[listing.i]
         skip == [listing EXCEPT !.pc = "probe", !.i = @ + 1,
                                 !.asked = Append(@, calls[Lister].name)]
     IN  listing' =
           IF calls[Lister].err # ""
             THEN [skip EXCEPT !.pc = "done", !.i = Len(listing.items) + 1,
                               !.failed = @ \cup {name},
                               !.result = <<ListResult(<<>>, 0, calls[Lister].err,
                                                       FALSE)>>]
           ELSE
             LET status == calls[Lister].response[1]
                 returned == [skip EXCEPT !.statuses = Append(@, status)]
             IN  IF listing.statusFilter # "" /\ status.Status # listing.statusFilter
                   THEN returned
                   ELSE [returned EXCEPT
                           !.participants =
                             Append(@, ParticipantSummary(name, status))]
  /\ calls' = [calls EXCEPT ![Lister] = IdleCall]
  /\ UNCHANGED <<now, namespaces, data, unswept, nextTick, invalidated, got,
                 reducerVars, evaluatorVars, eventVars, lifeVars,
                 lockVars, provisionVars>>

\* the rest of the loop body, once GetParticipantStatus has returned
Summarize ==
  /\ listing.pc = "status"
  /\ calls[Lister].pc = "returned"
  /\ LET name == listing.items[listing.i]
         skip == [listing EXCEPT !.pc = "probe", !.i = @ + 1,
                                 !.asked = Append(@, calls[Lister].name)]
     IN  listing' =
           IF calls[Lister].err # ""
             THEN [skip EXCEPT !.failed = @ \cup {name}]
           ELSE
             LET status == calls[Lister].response[1]
                 returned == [skip EXCEPT !.statuses = Append(@, status)]
             IN  IF listing.statusFilter # "" /\ status.Status # listing.statusFilter
                   THEN returned
                   ELSE [returned EXCEPT
                           !.participants =
                             Append(@, ParticipantSummary(name, status))]
  /\ calls' = [calls EXCEPT ![Lister] = IdleCall]
  /\ UNCHANGED <<now, namespaces, data, unswept, nextTick, invalidated, got,
                 reducerVars, evaluatorVars, eventVars, lifeVars,
                 lockVars, provisionVars>>

\* after the loop: the second filter, the total and the page
FinishList(page, limit) ==
  /\ listing.pc = "probe"
  /\ listing.i > Len(listing.items)
  /\ LET participants == FilterByStatus(listing.participants, listing.statusFilter)
     IN  listing' = [listing EXCEPT
                       !.pc = "done", !.page = page, !.limit = limit,
                       !.deadline = NoDeadline,
                       !.participants = participants,
                       !.result = <<Paginate(participants, page, limit)>>]
  /\ UNCHANGED <<checkerVars, reducerVars, evaluatorVars, eventVars, lifeVars,
                 lockVars, provisionVars>>

\* what the cache may hold when ListParticipants is called: nothing, or the
\* response of a GetParticipantStatus call made for gamma one Quantum earlier
CachedEarlier ==
  LET at == StartTime - Quantum
      comps == PutStatuses(
                 PutStatuses(EmptyMap, ListedScopes["gamma"].Deployments, 1,
                             "Deployments"),
                 ListedScopes["gamma"].StatefulSets, 1, "StatefulSets")
      status == DetermineOverallStatus(comps)
  IN  {EmptyMap,
       MapPut(EmptyMap, "gamma",
              CacheEntry(Response("gamma", status[1], at, comps, status[2], <<>>),
                         at))}

ListInit ==
  /\ now = StartTime
  /\ namespaces = ListedScopes
  /\ data \in CachedEarlier
  /\ unswept = data
  /\ nextTick = CleanupInterval
  /\ calls = [c \in Callers |-> IdleCall]
  /\ invalidated = {}
  /\ got = <<>>
  /\ ReducerUnused
  /\ EvaluatorUnused
  /\ EventsUnused
  /\ ListUnused
  /\ CacheStarted
  /\ LocksFree
  /\ NotProvisioning

ListNext ==
  \/ \E statusFilter \in StatusFilters : StartList(statusFilter, NoDeadline)
  \/ Probe
  \/ GetStatus
  \/ GetNamespace(Lister)
  \/ ListDeployments(Lister)
  \/ ListStatefulSets(Lister)
  \/ ListEvents(Lister)
  \/ StoreAndReturn(Lister)
  \/ Summarize
  \/ \E page \in Pages : \E limit \in Limits : FinishList(page, limit)

ListSpec == ListInit /\ [][ListNext]_vars

----------------------------------------------------------------------------
(* Specification of the deadlines: ListParticipants over three namespaces and  *)
(* GetParticipantStatus calls of another client, one operation at a time,     *)
(* each called with or without a deadline, while the clock advances past the  *)
(* default timeout.                                                           *)

\* the goroutine of the other client
Direct == "c2"

\* the contexts of the callers: none, one tighter than the default timeout and
\* one looser
Contexts ==
  {NoDeadline, <<now + Quantum>>, <<now + DefaultTimeout + Quantum>>}

DeadlineScopes == [name \in {"alpha", "default", "zeta"} |-> ListedScopes[name]]

\* the status checker has existed, unused, until DefaultTimeout before MaxTime
DeadlineInit ==
  /\ now = MaxTime - DefaultTimeout
  /\ namespaces = DeadlineScopes
  /\ data = EmptyMap
  /\ unswept = EmptyMap
  /\ nextTick = CleanupInterval
  /\ calls = [c \in Callers |-> IdleCall]
  /\ invalidated = {}
  /\ got = <<>>
  /\ NothingAlone

DeadlineNext ==
  \/ \E ctx \in Contexts : calls[Direct].pc = "idle" /\ StartList("", ctx)
  \/ Probe
  \/ GetStatus
  \/ Summarize
  \/ FinishList(1, 3)
  \/ \E ctx \in Contexts :
       /\ calls[Direct].pc = "idle"
       /\ listing.pc \in {"idle", "done"}
       /\ Begin(Direct, "alpha", ctx)
  \/ \E c \in {Lister, Direct} : GetNamespace(c)
  \/ \E c \in {Lister, Direct} : ListDeployments(c)
  \/ \E c \in {Lister, Direct} : ListStatefulSets(c)
  \/ \E c \in {Lister, Direct} : ListEvents(c)
  \/ \E c \in {Lister, Direct} : StoreAndReturn(c)
  \/ Tick

DeadlineSpec == DeadlineInit /\ [][DeadlineNext]_vars

----------------------------------------------------------------------------
(* Specification of the seeding of the identity hub: two readiness callbacks, *)
(* each for the definition of a create request, run seedIdentityHubData one   *)
(* after the other or overlapping.                                            *)

\* base64.StdEncoding.EncodeToString([]byte(did))
Base64(text) == <<"base64", text>>

\* the (old, new) pairs of the strings.Replace calls, in the order of the code
Substitutions(definition) ==
  LET namespace == definition.ParticipantName
  IN  <<<<<<"${PARTICIPANT_NAME}">>, <<definition.ParticipantName>>>>,
        <<<<"${PARTICIPANT_DID}">>, <<definition.Did>>>>,
        <<<<"${PARTICIPANT_DID_BASE64}">>, Base64(definition.Did)>>,
        <<<<"${IH_BASE_URL}">>,
          <<"http://identityhub.", namespace, ".svc.cluster.local:7082">>>>,
        <<<<"${EDC_BASE_URL}">>,
          <<"http://controlplane.", namespace, ".svc.cluster.local:8082">>>>>>

\* strings.Replace(text, old, new, -1)
Replace(text, old, new) ==
  [i \in DOMAIN text |-> IF text[i] = old THEN new ELSE text[i]]

\* another callback is in seedIdentityHubData: its accesses to participantJson
\* are not ordered with those of g
Racing(g) ==
  \E h \in Seeders \ {g} : seeds[h].pc \in {"load", "store", "send"}

\* what a read of participantJson that races with a write may yield besides a
\* value written: a string header of which one word is old and one new
Torn == <<<<"torn">>>>

\* what a read of participantJson by g may yield
Reads(g) == {participantJson} \cup IF Racing(g) THEN {Torn} ELSE {}

\* onDeploymentReady(definition) reaches seedIdentityHubData
StartSeed(g, definition) ==
  /\ seeds[g].pc = "idle"
  /\ seeds' = [seeds EXCEPT ![g] =
                 [IdleSeed EXCEPT !.pc = "load", !.definition = definition,
                                  !.k = 1]]
  /\ UNCHANGED <<checkerVars, reducerVars, evaluatorVars, eventVars, listVars,
                 lifeVars, lockVars, participantJson, waitVars>>

\* participantJson = strings.Replace(participantJson, ...): the read
LoadText(g) ==
  /\ seeds[g].pc = "load"
  /\ \E text \in Reads(g) :
       seeds' = [seeds EXCEPT ![g].pc = "store", ![g].text = text]
  /\ UNCHANGED <<checkerVars, reducerVars, evaluatorVars, eventVars, listVars,
                 lifeVars, lockVars, participantJson, waitVars>>

\* participantJson = strings.Replace(participantJson, ...): the assignment
StoreText(g) ==
  /\ seeds[g].pc = "store"
  /\ LET substitution == Substitutions(seeds[g].definition)[seeds[g].k]
     IN  participantJson' =
           Replace(seeds[g].text, substitution[1], substitution[2])
  /\ seeds' = [seeds EXCEPT
                 ![g].pc = IF seeds[g].k < Len(ParticipantTemplate)
                             THEN "load" ELSE "send",
                 ![g].k = IF seeds[g].k < Len(ParticipantTemplate)
                            THEN @ + 1 ELSE @,
                 ![g].text = <<>>]
  /\ UNCHANGED <<checkerVars, reducerVars, evaluatorVars, eventVars, listVars,
                 lifeVars, lockVars, waitVars>>

\* identityApi.CreateParticipant(participantJson)
Send(g) ==
  /\ seeds[g].pc = "send"
  /\ \E text \in Reads(g) :
       seeds' = [seeds EXCEPT ![g].pc = "done", ![g].body = text]
  /\ UNCHANGED <<checkerVars, reducerVars, evaluatorVars, eventVars, listVars,
                 lifeVars, lockVars, participantJson, waitVars>>

SeedInit ==
  /\ CheckerUnused
  /\ NothingAlone

SeedNext ==
  \/ \E g \in Seeders : \E definition \in Definitions : StartSeed(g, definition)
  \/ \E g \in Seeders : LoadText(g)
  \/ \E g \in Seeders : StoreText(g)
  \/ \E g \in Seeders : Send(g)

SeedSpec == SeedInit /\ [][SeedNext]_vars

----------------------------------------------------------------------------
(* Specification of the readiness wait of one create request: the handler     *)
(* has applied the deployments and calls waitForDeploymentsAsync; the          *)
(* deployments gain and lose ready replicas, any lookup may fail, and a        *)
(* context that can be cancelled may be cancelled.                             *)

\* a context made with context.WithCancel, not yet cancelled
Cancellable == [cancellable |-> TRUE, done |-> FALSE]

\* desired := int32(1); if deployment.Spec.Replicas != nil { desired = *... }
WantedReplicas(deployment) ==
  IF deployment.Replicas = <<>> THEN 1 ELSE deployment.Replicas[1]

\* waitForDeploymentsAsync(c, ctx, namespace, deployments, callback): the
\* goroutine is started, waitForDeployments makes errCh and starts a goroutine
\* per deployment name
StartWait(context) ==
  /\ collector.pc = "idle"
  /\ waitCtx' = context
  /\ \E deployment \in NewDeployments :
       cluster' = [name \in Range(participantDeploymentNames) |-> deployment]
  /\ collector' = [collector EXCEPT !.pc = "receiving"]
  /\ waiters' = [name \in Range(participantDeploymentNames) |->
                   [IdleWaiter EXCEPT !.pc = "get"]]
  /\ errCh' = <<>>
  /\ UNCHANGED <<checkerVars, reducerVars, evaluatorVars, eventVars, listVars,
                 lifeVars, lockVars, seedVars>>

\* the owner of the context cancels it
Cancel ==
  /\ collector.pc # "idle"
  /\ waitCtx.cancellable
  /\ ~waitCtx.done
  /\ waitCtx' = [waitCtx EXCEPT !.done = TRUE]
  /\ UNCHANGED <<checkerVars, reducerVars, evaluatorVars, eventVars, listVars,
                 lifeVars, lockVars, seedVars, cluster, waiters, errCh, collector>>

\* the backing system: the last replica of the deployment becomes ready
BecomeReady(name) ==
  /\ collector.pc # "idle"
  /\ cluster[name].ReadyReplicas < WantedReplicas(cluster[name])
  /\ cluster' = [cluster EXCEPT ![name].ReadyReplicas = @ + 1]
  /\ UNCHANGED <<checkerVars, reducerVars, evaluatorVars, eventVars, listVars,
                 lifeVars, lockVars, seedVars, waitCtx, waiters, errCh, collector>>

\* the backing system: a replica of a ready deployment is lost
LoseReplica(name) ==
  /\ collector.pc # "idle"
  /\ cluster[name].ReadyReplicas = WantedReplicas(cluster[name])
  /\ cluster' = [cluster EXCEPT ![name].ReadyReplicas = @ - 1]
  /\ UNCHANGED <<checkerVars, reducerVars, evaluatorVars, eventVars, listVars,
                 lifeVars, lockVars, seedVars, waitCtx, waiters, errCh, collector>>

\* waitForDeployment: c.Get of the deployment and the test of its replicas; the
\* lookup may fail, and fails once the context is done
GetDeployment(name) ==
  /\ waiters[name].pc = "get"
  /\ \/ waiters' = [waiters EXCEPT ![name].pc = "returned",
                                   ![name].result = <<"lookup failed">>]
     \/ /\ ~waitCtx.done
        /\ waiters' =
             [waiters EXCEPT
                ![name].seen =
                  IF cluster[name].ReadyReplicas = WantedReplicas(cluster[name])
                    THEN <<cluster[name]>> ELSE <<>>,
                ![name].pc =
                  IF cluster[name].ReadyReplicas = WantedReplicas(cluster[name])
                    THEN "returned" ELSE "select",
                ![name].result =
                  IF cluster[name].ReadyReplicas = WantedReplicas(cluster[name])
                    THEN <<"">> ELSE <<>>]
  /\ UNCHANGED <<checkerVars, reducerVars, evaluatorVars, eventVars, listVars,
                 lifeVars, lockVars, seedVars, cluster, waitCtx, errCh, collector>>

\* waitForDeployment: select on ctx.Done() and time.After(readinessPollInterval)
Select(name) ==
  /\ waiters[name].pc = "select"
  /\ \/ /\ waitCtx.done
        /\ waiters' = [waiters EXCEPT ![name].pc = "returned",
                                      ![name].result = <<"context canceled">>]
     \/ waiters' = [waiters EXCEPT ![name].pc = "get"]
  /\ UNCHANGED <<checkerVars, reducerVars, evaluatorVars, eventVars, listVars,
                 lifeVars, lockVars, seedVars, cluster, waitCtx, errCh, collector>>

\* errCh <- waitForDeployment(c, ctx, namespace, name): the send; the channel
\* has room for every result
SendResult(name) ==
  /\ waiters[name].pc = "returned"
  /\ errCh' = Append(errCh, waiters[name].result[1])
  /\ waiters' = [waiters EXCEPT ![name].pc = "done"]
  /\ UNCHANGED <<checkerVars, reducerVars, evaluatorVars, eventVars, listVars,
                 lifeVars, lockVars, seedVars, cluster, waitCtx, collector>>

\* Receive that leaves the loop of waitForDeployments at the first error
ReceiveFailFast ==
  /\ collector.pc = "receiving"
  /\ collector.received < Len(participantDeploymentNames)
  /\ errCh # <<>>
  /\ errCh' = Tail(errCh)
  /\ collector' =
       [collector EXCEPT
          !.pc = IF Head(errCh) # "" THEN "returned" ELSE @,
          !.received = @ + 1,
          !.firstErr = IF Head(errCh) # "" /\ @ = "" THEN Head(errCh) ELSE @]
  /\ UNCHANGED <<checkerVars, reducerVars, evaluatorVars, eventVars, listVars,
                 lifeVars, lockVars, seedVars, cluster, waitCtx, waiters>>

\* waitForDeployments: one pass of the loop, err := <-errCh
Receive ==
  /\ collector.pc = "receiving"
  /\ collector.received < Len(participantDeploymentNames)
  /\ errCh # <<>>
  /\ errCh' = Tail(errCh)
  /\ collector' =
       [collector EXCEPT
          !.received = @ + 1,
          !.firstErr = IF Head(errCh) # "" /\ @ = "" THEN Head(errCh) ELSE @]
  /\ UNCHANGED <<checkerVars, reducerVars, evaluatorVars, eventVars, listVars,
                 lifeVars, lockVars, seedVars, cluster, waitCtx, waiters>>

\* waitForDeployments: the loop is over, return firstErr
ReturnFirstErr ==
  /\ collector.pc = "receiving"
  /\ collector.received = Len(participantDeploymentNames)
  /\ collector' = [collector EXCEPT !.pc = "returned"]
  /\ UNCHANGED <<checkerVars, reducerVars, evaluatorVars, eventVars, listVars,
                 lifeVars, lockVars, seedVars, cluster, waitCtx, waiters, errCh>>

\* the goroutine of waitForDeploymentsAsync: on an error print and return,
\* else callback()
Complete ==
  /\ collector.pc = "returned"
  /\ collector' =
       [collector EXCEPT
          !.pc = "ended",
          !.callbacks = IF collector.firstErr = "" THEN @ + 1 ELSE @]
  /\ UNCHANGED <<checkerVars, reducerVars, evaluatorVars, eventVars, listVars,
                 lifeVars, lockVars, seedVars, cluster, waitCtx, waiters, errCh>>

WaitInit ==
  /\ CheckerUnused
  /\ NothingAlone

WaitNext ==
  \/ \E context \in {Background, Cancellable} : StartWait(context)
  \/ Cancel
  \/ \E name \in Range(participantDeploymentNames) : BecomeReady(name)
  \/ \E name \in Range(participantDeploymentNames) : LoseReplica(name)
  \/ \E name \in Range(participantDeploymentNames) : GetDeployment(name)
  \/ \E name \in Range(participantDeploymentNames) : Select(name)
  \/ \E name \in Range(participantDeploymentNames) : SendResult(name)
  \/ Receive
  \/ ReturnFirstErr
  \/ Complete

WaitSpec == WaitInit /\ [][WaitNext]_vars

\* the same, every goroutine that can take a step eventually taking one
WaitFairSpec ==
  /\ WaitInit
  /\ [][WaitNext]_vars
  /\ \A name \in Range(participantDeploymentNames) :
       /\ WF_vars(GetDeployment(name))
       /\ WF_vars(Select(name))
       /\ WF_vars(SendResult(name))
  /\ WF_vars(Receive)
  /\ WF_vars(ReturnFirstErr)
  /\ WF_vars(Complete)

----------------------------------------------------------------------------
(* Specification of everything that produces a status: the reducer on its own *)
(* on any sampled mapping, the concurrent callers of GetParticipantStatus of   *)
(* Spec, or the ListParticipants calls of ListSpec.                            *)

StatusInit == ReducerInit \/ Init \/ ListInit

StatusNext ==
  \/ now < StartTime /\ ReducerNext
  \/ now >= StartTime /\ namespaces # ListedScopes /\ Next
  \/ namespaces = ListedScopes /\ ListNext

StatusSpec == StatusInit /\ [][StatusNext]_vars

----------------------------------------------------------------------------
(* Properties of the cache on its own (CacheSpec) *)

\* C1: a get on the cache returns a response only while an entry of the key is
\* in the map and the time is not later than the entry's expiry instant, the
\* time of its set plus TTL; so once the time is later than that, get returns
\* absent, whether or not the reaper has removed the entry.
C1_ExpiredEntryIsAbsent ==
  got # <<>> =>
    /\ (got.key \in DOMAIN data /\ now > data[got.key].storedAt + TTL)
         => got.result = <<>>
    /\ got.result # <<>> =>
         /\ got.key \in DOMAIN data
         /\ now <= data[got.key].storedAt + TTL
         /\ got.result = <<data[got.key].response>>

\* an expired entry that the reaper has not removed is asked for: get returns nil
C1_Witness ==
  /\ got # <<>>
  /\ got.key \in DOMAIN data
  /\ now > data[got.key].storedAt + TTL
  /\ got.result = <<>>

----------------------------------------------------------------------------
(* Properties of the status checker (Spec) *)

\* the entry of the name is the one the call of c wrote or was served from
EntryIsResultOf(c) ==
  /\ calls[c].name \in DOMAIN data
  /\ data[calls[c].name] = CacheEntry(calls[c].response[1], calls[c].storedAt)

\* the call of c has returned; since then the entry of its name was neither
\* invalidated, cleared nor overwritten, and TTL has not run out
StillCached(c) ==
  /\ calls[c].pc = "returned"
  /\ calls[c].since = "clean"
  /\ now <= calls[c].storedAt + TTL

\* C2 as stated: a second call for the same name, issued within TTL of the
\* cache write of the response the first call returned, with no invalidate of
\* the name and no clear in between, is a cache hit that returns the identical
\* response and makes no call to the backing system.
C2_Original ==
  \A c \in Callers :
    calls[c].repeat # <<>> =>
      /\ calls[c].pc = "returned"
      /\ calls[c].hit
      /\ calls[c].identical
      /\ calls[c].backingCalls = <<>>

\* C2 as amended: such a second call is a cache hit that succeeds and makes no
\* call to the backing system; the response is identical to the first one when
\* moreover no other call of getStatus wrote the entry of the name in between.
C2_RepeatIsHit ==
  \A c \in Callers :
    calls[c].repeat # <<>> =>
      /\ calls[c].pc = "returned"
      /\ calls[c].hit
      /\ calls[c].err = ""
      /\ calls[c].response # <<>>
      /\ calls[c].backingCalls = <<>>
      /\ calls[c].repeat[2] = "unshared" => calls[c].identical

\* a second call is served the READY response of the first, after time has passed
C2_Witness ==
  \E c \in Callers :
    /\ calls[c].repeat = <<StatusReady, "unshared">>
    /\ calls[c].hit
    /\ calls[c].identical
    /\ calls[c].response[1].LastUpdated < now

\* C3 as stated: the first call of getStatus issued for a name after an
\* invalidate of the name is not served from the cache: it looks the scope up in
\* the backing system and returns a response built by this call.
C3_Original ==
  \A c \in Callers :
    (calls[c].afterInvalidate /\ calls[c].pc = "returned" /\ calls[c].err = "") =>
      /\ ~calls[c].hit
      /\ calls[c].backingCalls # <<>>
      /\ calls[c].backingCalls[1] = "namespace"

\* C4: when the backing system reports the scope absent, the call builds a
\* NOT_FOUND response, stores it in the cache and returns it with no error; a
\* further call within TTL of that write (no invalidate or clear between) is
\* served from the cache and makes no call to the backing system.
C4_NotFoundIsCached ==
  \A c \in Callers :
    /\ calls[c].saw = "absent" =>
         /\ calls[c].pc \in {"cacheSet", "returned"}
         /\ calls[c].err = ""
         /\ calls[c].response # <<>>
         /\ calls[c].response[1].Status = StatusNotFound
         /\ calls[c].response[1].ParticipantName = calls[c].name
         /\ calls[c].backingCalls = <<"namespace">>
         /\ StillCached(c) => EntryIsResultOf(c)
    /\ (calls[c].repeat # <<>> /\ calls[c].repeat[1] = StatusNotFound) =>
         /\ calls[c].pc = "returned"
         /\ calls[c].hit
         /\ calls[c].backingCalls = <<>>

\* a NOT_FOUND response is served again from the cache, later on, with the
\* scope still absent
C4_Witness ==
  \E c \in Callers :
    /\ calls[c].repeat = <<StatusNotFound, "unshared">>
    /\ calls[c].hit
    /\ calls[c].response[1].Status = StatusNotFound
    /\ calls[c].response[1].LastUpdated < now
    /\ calls[c].name \notin DOMAIN namespaces

\* the response names NOT_FOUND or DELETING only with an empty component mapping
EmptyWhenGone(response) ==
  response.Status \in {StatusNotFound, StatusDeleting}
    => response.Components = EmptyMap

\* C5: every response held in the cache, built by a call or returned by it, whose
\* status is NOT_FOUND or DELETING has an empty component mapping.
C5_GoneHasNoComponents ==
  /\ \A key \in DOMAIN data : EmptyWhenGone(data[key].response)
  /\ \A c \in Callers :
       calls[c].response # <<>> => EmptyWhenGone(calls[c].response[1])

\* the cache holds a DELETING response for a scope that has deployments, and a
\* caller was returned it
C5_Witness ==
  \E c \in Callers :
    /\ calls[c].pc = "returned"
    /\ calls[c].response # <<>>
    /\ calls[c].response[1].Status = StatusDeleting
    /\ EntryIsResultOf(c)
    /\ ListIn(calls[c].name, "Deployments") # <<>>

\* C6: when the namespace lookup finds the scope with its deletion marker set,
\* the call builds a DELETING response whatever the scope holds, lists neither
\* resources nor events, stores the response in the cache and returns it.
C6_DeletionPrecedence ==
  \A c \in Callers :
    calls[c].saw = "deleting" =>
      /\ calls[c].pc \in {"cacheSet", "returned"}
      /\ calls[c].err = ""
      /\ calls[c].response # <<>>
      /\ calls[c].response[1].Status = StatusDeleting
      /\ calls[c].backingCalls = <<"namespace">>
      /\ StillCached(c) => EntryIsResultOf(c)

\* DELETING is returned and cached for a scope all of whose components are ready
C6_Witness ==
  \E c \in Callers :
    /\ calls[c].pc = "returned"
    /\ calls[c].saw = "deleting"
    /\ calls[c].response[1].Status = StatusDeleting
    /\ EntryIsResultOf(c)
    /\ namespaces[calls[c].name] = [ReadyScope EXCEPT !.Deleting = TRUE]
    /\ DetermineOverallStatus(
         PutStatuses(
           PutStatuses(EmptyMap, ListIn(calls[c].name, "Deployments"), 1,
                       "Deployments"),
           ListIn(calls[c].name, "StatefulSets"), 1, "StatefulSets"))[1]
         = StatusReady

\* the statuses of the workloads that the scope of the name holds
ListedComponents(name) ==
  PutStatuses(PutStatuses(EmptyMap, ListIn(name, "Deployments"), 1, "Deployments"),
              ListIn(name, "StatefulSets"), 1, "StatefulSets")

\* C16: when the event query of a call fails, after the namespace lookup and
\* both listings succeeded, the call still succeeds: its response has the
\* status and the components computed from the listings and an empty event
\* sequence, and the call stores it in the cache and returns it.
C16_EventFailureTolerated ==
  \A c \in Callers :
    calls[c].eventsErr # "" =>
      /\ calls[c].pc \in {"cacheSet", "returned"}
      /\ calls[c].err = ""
      /\ calls[c].backingCalls = <<"namespace", "deployments", "statefulsets", "events">>
      /\ calls[c].response # <<>>
      /\ calls[c].response[1].Events = <<>>
      /\ calls[c].response[1].Components = ListedComponents(calls[c].name)
      /\ calls[c].response[1].Status =
           DetermineOverallStatus(ListedComponents(calls[c].name))[1]
      /\ calls[c].response[1].Message =
           DetermineOverallStatus(ListedComponents(calls[c].name))[2]
      /\ StillCached(c) => EntryIsResultOf(c)

\* a call whose event query failed has returned a DEGRADED response with its
\* three components and no events, for a scope that has a recent event, and
\* the cache holds that response
C16_Witness ==
  \E c \in Callers :
    /\ calls[c].eventsErr # ""
    /\ calls[c].pc = "returned"
    /\ calls[c].response[1].Status = StatusDegraded
    /\ Cardinality(DOMAIN calls[c].response[1].Components) = 3
    /\ calls[c].response[1].Events = <<>>
    /\ GetRecentEvents(ListIn(calls[c].name, "Events"), now) # {<<>>}
    /\ EntryIsResultOf(c)

\* the step ends the call of c at the namespace lookup or at a listing
FailsIn(c) ==
  /\ calls[c].pc \in {"getNamespace", "listDeployments", "listStatefulSets"}
  /\ calls'[c].pc \in {"idle", "returned"}

\* C17: a step in which the namespace lookup fails with an error other than
\* not-found, or a listing of either kind fails, ends the call with an error
\* and no response, and leaves the cache as it was, for every key; neither an
\* entry of the cache, expired or not, nor what was listed so far is returned.
C17_HardError ==
  [][\A c \in Callers :
       FailsIn(c) =>
         /\ data' = data
         /\ calls'[c].response = <<>>
         /\ ~calls'[c].hit
         /\ c \in Observers => calls'[c].err # ""]_vars

\* the stateful-set listing of a call has failed after its deployment listing
\* succeeded, while the cache holds an expired entry of the name: the call
\* returned the error and nothing else
C17_Witness ==
  \E c \in Callers :
    /\ calls[c].pc = "returned"
    /\ calls[c].err # ""
    /\ calls[c].response = <<>>
    /\ calls[c].backingCalls = <<"namespace", "deployments", "statefulsets">>
    /\ calls[c].comps # EmptyMap
    /\ calls[c].name \in DOMAIN data
    /\ now > data[calls[c].name].expiresAt

\* the response is fully populated for the name asked
Populated(response, name) ==
  /\ DOMAIN response = {"ParticipantName", "Status", "LastUpdated", "Components",
                        "Message", "Events"}
  /\ response.ParticipantName = name
  /\ response.Status \in ProvisioningStatus
  /\ response.LastUpdated > 0
  /\ response.LastUpdated <= now
  /\ \A component \in DOMAIN response.Components :
       /\ response.Components[component].Status
            \in {"Running", "Pending", "Starting", "Degraded", "Unknown"}
       /\ response.Components[component].Ready \in BOOLEAN

\* C18: every outcome of a call is either an error with no response, or a
\* response with no error that names the name asked, has a status of the
\* enumeration, a timestamp that is set and a component mapping (maybe empty);
\* on cache hits, NOT_FOUND, DELETING and failed event queries alike.
C18_ErrorOrPopulated ==
  \A c \in Callers :
    calls[c].pc = "returned" =>
      \/ calls[c].err # "" /\ calls[c].response = <<>>
      \/ /\ calls[c].err = ""
         /\ calls[c].response # <<>>
         /\ Populated(calls[c].response[1], calls[c].name)

\* a cache hit returned a response that another call built with a failed event
\* query
C18_Witness ==
  \E c \in Callers :
    /\ calls[c].pc = "returned"
    /\ calls[c].hit
    /\ calls[c].err = ""
    /\ calls[c].response[1].Status = StatusReady
    /\ calls[c].response[1].Events = <<>>
    /\ calls[c].response[1].LastUpdated < now

----------------------------------------------------------------------------
(* Properties of the reducer (ReducerSpec) *)

\* the critical name is in the mapping with ready = true
CriticalReady(name) == name \in DOMAIN components /\ components[name].Ready

\* the critical names that are absent from the mapping or not ready
CriticalNotReady == {name \in Range(criticalDeployments) : ~CriticalReady(name)}

\* the names of the mapping that are not critical and have ready = false
NonCriticalNotReady ==
  {name \in DOMAIN components : ~IsCriticalName(name) /\ ~components[name].Ready}

\* C7: with every critical name present and ready and no other component not
\* ready, the reducer returns READY, "All components are running and ready".
C7_AllReady ==
  (overall # <<>> /\ CriticalNotReady = {} /\ NonCriticalNotReady = {}) =>
    overall = <<StatusReady, <<"All components are running and ready">>>>

\* READY is returned for a mapping that also holds a ready non-critical component
C7_Witness ==
  /\ overall # <<>>
  /\ CriticalNotReady = {}
  /\ NonCriticalNotReady = {}
  /\ DOMAIN components # Range(criticalDeployments)
  /\ overall[1] = StatusReady

\* C8: with every critical name absent or not ready (the empty mapping and the
\* mappings of non-critical components only included), the reducer returns
\* PROVISIONING.
C8_NothingCriticalReady ==
  (overall # <<>> /\ CriticalNotReady = Range(criticalDeployments)) =>
    overall[1] = StatusProvisioning

\* PROVISIONING is returned for a mapping that holds one ready non-critical
\* component, one critical component that is not ready, and nothing else
C8_Witness ==
  /\ overall # <<>>
  /\ CriticalNotReady = Range(criticalDeployments)
  /\ Cardinality(DOMAIN components) = 2
  /\ \E name \in DOMAIN components : IsCriticalName(name)
  /\ \E name \in DOMAIN components : ~IsCriticalName(name) /\ components[name].Ready
  /\ overall[1] = StatusProvisioning

\* C9: with exactly one critical name absent or not ready, the reducer returns
\* DEGRADED with a message containing "1 of 4", whatever the non-critical
\* components are.
C9_OneCriticalNotReady ==
  (overall # <<>> /\ Cardinality(CriticalNotReady) = 1) =>
    /\ overall[1] = StatusDegraded
    /\ Contains(overall[2], <<"1", " of ", "4">>)

\* DEGRADED "1 of 4" is returned with the one critical component absent and a
\* non-critical component not ready
C9_Witness ==
  /\ overall # <<>>
  /\ Cardinality(CriticalNotReady) = 1
  /\ \E name \in CriticalNotReady : name \notin DOMAIN components
  /\ NonCriticalNotReady # {}
  /\ overall[1] = StatusDegraded

\* C10: with the four critical components ready and a non-critical component
\* not ready, the reducer returns DEGRADED, "All critical components ready, but
\* some non-critical components are not ready".
C10_NonCriticalNotReady ==
  (overall # <<>> /\ CriticalNotReady = {} /\ NonCriticalNotReady # {}) =>
    overall =
      <<StatusDegraded,
        <<"All critical components ready, but some non-critical components are not ready">>>>

\* that DEGRADED is returned
C10_Witness ==
  /\ overall # <<>>
  /\ CriticalNotReady = {}
  /\ NonCriticalNotReady # {}
  /\ overall[1] = StatusDegraded

\* some but not all of the critical components are ready
SomeCriticalReady ==
  /\ CriticalNotReady # {}
  /\ CriticalNotReady # Range(criticalDeployments)

\* the positions in criticalDeployments of the names that are in the mapping,
\* not ready, and carry a message
PresentWithMessage ==
  {i \in DOMAIN criticalDeployments :
     /\ criticalDeployments[i] \in DOMAIN components
     /\ ~components[criticalDeployments[i]].Ready
     /\ components[criticalDeployments[i]].Message # <<>>}

\* the positions in criticalDeployments of the names absent from the mapping
AbsentCritical ==
  {i \in DOMAIN criticalDeployments :
     criticalDeployments[i] \notin DOMAIN components}

\* the message recorded for the critical name at position i
RecordedAt(i) ==
  IF i \in AbsentCritical
    THEN <<"Critical component ", criticalDeployments[i], " not found">>
    ELSE <<criticalDeployments[i], ": ">> \o components[criticalDeployments[i]].Message

\* "N of 4 critical components not ready", then ": " and the message recorded
\* at the least of the positions, if there is one
PartialMessage(positions) ==
  <<ToString(Cardinality(CriticalNotReady)), " of ", "4",
    " critical components not ready">>
    \o (IF positions = {} THEN <<>>
        ELSE <<": ">> \o RecordedAt(CHOOSE i \in positions :
                                      \A j \in positions : i <= j))

\* C11 as stated: with some but not all critical components ready, the message is
\* "N of 4 critical components not ready", followed by ": " and the first
\* recorded message if any, where a message is recorded only for a critical
\* component that is in the mapping (not ready, with a message); an absent
\* critical component is counted and records nothing.
C11_Original ==
  (overall # <<>> /\ SomeCriticalReady) =>
    overall[2] = PartialMessage(PresentWithMessage)

\* C11 as amended: with some but not all critical components ready, the reducer
\* returns DEGRADED and the message "N of 4 critical components not ready",
\* followed by ": " and the first recorded message if any, where the messages
\* are recorded in the order of the critical names: "Critical component <name>
\* not found" for an absent one, "<name>: <message>" for one that is present,
\* not ready and has a non-empty message.
C11_PartialMessage ==
  (overall # <<>> /\ SomeCriticalReady) =>
    overall = <<StatusDegraded,
                PartialMessage(PresentWithMessage \cup AbsentCritical)>>

\* an absent critical name comes before a present one that is not ready and has
\* a message: the message returned ends with the "not found" of the absent one
C11_Witness ==
  /\ overall # <<>>
  /\ SomeCriticalReady
  /\ \E i \in AbsentCritical : \E j \in PresentWithMessage : i < j
  /\ \E i \in AbsentCritical :
       Contains(overall[2], <<": ", "Critical component ", criticalDeployments[i],
                              " not found">>)

\* C12: the reducer is total and deterministic: for every mapping it returns one
\* pair of a status of the enumeration and a message, and an evaluation of the
\* same mapping returns the same pair whatever the order in which the range over
\* the map visits the keys; the reducer reads nothing but the mapping.
C12_Deterministic ==
  /\ overall # <<>> =>
       /\ Len(overall) = 2
       /\ overall[1] \in ProvisioningStatus
       /\ overall[2] # <<>>
  /\ again # <<>> => again.result = overall

\* the second evaluation visited a non-critical component that is not ready
\* first and a ready non-critical one last, and returned the pair of the first
C12_Witness ==
  /\ again # <<>>
  /\ Len(again.order) >= 2
  /\ ~IsCriticalName(again.order[1])
  /\ ~components[again.order[1]].Ready
  /\ ~IsCriticalName(again.order[Len(again.order)])
  /\ components[again.order[Len(again.order)]].Ready
  /\ again.result = overall

----------------------------------------------------------------------------
(* Properties of the component evaluators (EvaluatorSpec) *)

\* the desired count of the workload evaluated: 1 when the replica count is unset
Desired == IF workload.SpecReplicas = <<>> THEN 1 ELSE workload.SpecReplicas[1]

\* rule 1 of the chain matches the workload evaluated
Rule1 == workload.ReadyReplicas = Desired /\ Desired > 0

\* C13: the stateless-workload evaluator returns the result of the first
\* matching rule: ready = desired and desired > 0 gives Running, ready; else
\* current = 0 gives Pending, "No pods are running"; else ready < desired gives
\* Starting, "<ready> of <desired> replicas ready"; else unavailable > 0 gives
\* Degraded, "<unavailable> replicas unavailable"; else Unknown, not ready, no
\* message; the replicas reported are (desired, current, ready), desired being
\* 1 when the replica count is unset.
C13_FirstMatchingRule ==
  evaluated.deployment # <<>> =>
    LET result == evaluated.deployment[1]
        current == workload.Replicas
        ready == workload.ReadyReplicas
        unavailable == workload.UnavailableReplicas
    IN  /\ result.Replicas = [Desired |-> Desired, Current |-> current, Ready |-> ready]
        /\ Rule1 =>
             result.Status = "Running" /\ result.Ready /\ result.Message = <<>>
        /\ (~Rule1 /\ current = 0) =>
             /\ result.Status = "Pending" /\ ~result.Ready
             /\ result.Message = <<"No pods are running">>
        /\ (~Rule1 /\ current # 0 /\ ready < Desired) =>
             /\ result.Status = "Starting" /\ ~result.Ready
             /\ result.Message =
                  <<ToString(ready), " of ", ToString(Desired), " replicas ready">>
        /\ (~Rule1 /\ current # 0 /\ ready >= Desired /\ unavailable > 0) =>
             /\ result.Status = "Degraded" /\ ~result.Ready
             /\ result.Message = <<ToString(unavailable), " replicas unavailable">>
        /\ (~Rule1 /\ current # 0 /\ ready >= Desired /\ unavailable = 0) =>
             result.Status = "Unknown" /\ ~result.Ready /\ result.Message = <<>>

\* a workload with no pod and an unset replica count, for which rules 2 and 3
\* both match, is evaluated: Pending, with replicas (1, 0, 0)
C13_Witness ==
  /\ evaluated.deployment # <<>>
  /\ workload.SpecReplicas = <<>>
  /\ workload.Replicas = 0
  /\ workload.ReadyReplicas = 0
  /\ evaluated.deployment[1].Status = "Pending"
  /\ evaluated.deployment[1].Replicas = [Desired |-> 1, Current |-> 0, Ready |-> 0]

\* C14: the stateful-workload evaluator returns the ComponentStatus that the
\* stateless-workload evaluator returns for the same desired, current and ready
\* counts with unavailable = 0; the results of the two evaluators on one
\* workload differ only when rule 4 (Degraded) of the stateless one fires.
C14_StatefulIsStatelessWithoutRule4 ==
  /\ evaluated.statefulSet # <<>> =>
       evaluated.statefulSet[1] =
         GetDeploymentStatus([workload EXCEPT !.UnavailableReplicas = 0])
  /\ (evaluated.statefulSet # <<>> /\ evaluated.deployment # <<>>) =>
       (evaluated.statefulSet # evaluated.deployment
          <=> evaluated.deployment[1].Status = "Degraded")

\* rule 4 fires for the stateless evaluator, and the stateful one says Unknown
C14_Witness ==
  /\ evaluated.statefulSet # <<>>
  /\ evaluated.deployment # <<>>
  /\ evaluated.deployment[1].Status = "Degraded"
  /\ evaluated.statefulSet[1].Status = "Unknown"
  /\ evaluated.statefulSet[1].Replicas = evaluated.deployment[1].Replicas

----------------------------------------------------------------------------
(* Properties of the event collector (EventSpec) *)

\* the positions in the listing of the records within the window at time now
InWindow ==
  {i \in DOMAIN listed : listed[i].LastTimestamp > now - EventWindow}

\* the positions in the listing of the records that the result holds
ReturnedRecords ==
  {i \in DOMAIN listed :
     \E k \in DOMAIN recent[1].events :
       /\ recent[1].events[k].Timestamp = listed[i].LastTimestamp
       /\ recent[1].events[k].Type = listed[i].Type
       /\ recent[1].events[k].Message = listed[i].Message}

\* C15: a successful GetRecentEvents returns records of the listing that lie
\* within the last 30 minutes at call time, each once, most recent first: the
\* sequence is non-increasing in timestamp, its length is the lesser of 10 and
\* the number of records in the window, and no record of the window that is
\* left out is newer than a returned one.
C15_MostRecentTen ==
  (recent # <<>> /\ recent[1].err = "") =>
    LET events == recent[1].events
    IN  /\ ReturnedRecords \subseteq InWindow
        /\ Cardinality(ReturnedRecords) = Len(events)
        /\ \A k \in DOMAIN events :
             \E i \in InWindow : events[k].Timestamp = listed[i].LastTimestamp
        /\ \A k \in DOMAIN events : events[k].Timestamp > now - EventWindow
        /\ \A k \in 1..(Len(events) - 1) :
             events[k].Timestamp >= events[k + 1].Timestamp
        /\ Len(events) = IF Cardinality(InWindow) < 10
                           THEN Cardinality(InWindow) ELSE 10
        /\ \A i \in InWindow \ ReturnedRecords :
             \A k \in DOMAIN events :
               listed[i].LastTimestamp <= events[k].Timestamp

\* more than ten records are in the window, others are outside it, the listing
\* is not in order, and a record left out is as recent as the last one returned
C15_Witness ==
  /\ recent # <<>>
  /\ recent[1].err = ""
  /\ Cardinality(InWindow) > 10
  /\ InWindow # DOMAIN listed
  /\ Len(recent[1].events) = 10
  /\ \E i \in InWindow \ ReturnedRecords :
       listed[i].LastTimestamp = recent[1].events[10].Timestamp
  /\ \E i \in InWindow : \E j \in InWindow :
       i < j /\ listed[i].LastTimestamp < listed[j].LastTimestamp

----------------------------------------------------------------------------
(* Properties of ListParticipants (ListSpec) *)

\* a ListParticipants call has returned, or panicked, after listing the namespaces
Listed == listing.pc = "done" /\ listing.result[1].err = ""

\* the position of the namespace in the enumeration
Position(name) == CHOOSE i \in DOMAIN NamespaceOrder : NamespaceOrder[i] = name

\* the summaries kept are in the order of the enumeration, one per namespace, and
\* have the status asked for if one was asked for
FilteredInOrder ==
  /\ \A k \in DOMAIN listing.participants : \A l \in DOMAIN listing.participants :
       k < l => Position(listing.participants[k].ParticipantName)
                  < Position(listing.participants[l].ParticipantName)
  /\ listing.statusFilter # "" =>
       \A k \in DOMAIN listing.participants :
         listing.participants[k].Status = listing.statusFilter

\* C19: for page >= 1 and limit >= 1, ListParticipants returns the filtered
\* summaries at positions (page-1)*limit+1 to min(page*limit, total), in the
\* order of the enumeration, with total the count of all filtered summaries;
\* when (page-1)*limit >= total it returns an empty sequence and that total.
C19_Page ==
  (Listed /\ listing.page >= 1 /\ listing.limit >= 1) =>
    LET result == listing.result[1]
        total == Len(listing.participants)
        first == (listing.page - 1) * listing.limit + 1
        last == IF listing.page * listing.limit < total
                  THEN listing.page * listing.limit ELSE total
    IN  /\ ~result.panic
        /\ FilteredInOrder
        /\ result.total = total
        /\ Len(result.participants) = IF first > total THEN 0 ELSE last - first + 1
        /\ \A k \in DOMAIN result.participants :
             result.participants[k] = listing.participants[first + k - 1]

\* page 2 with limit 2 over five summaries returns the third and the fourth
\* and the total 5
C19_Witness ==
  /\ Listed
  /\ listing.page = 2
  /\ listing.limit = 2
  /\ Len(listing.participants) = 5
  /\ listing.result[1].total = 5
  /\ listing.result[1].participants =
       <<listing.participants[3], listing.participants[4]>>

\* C20 as stated: for every integer page and limit, zero and negative ones
\* included, ListParticipants never fails on an index out of range: it returns
\* a run of consecutive filtered summaries and the count of all of them.
C20_Original ==
  Listed =>
    LET result == listing.result[1]
    IN  /\ ~result.panic
        /\ result.total = Len(listing.participants)
        /\ \E first \in 0..Len(listing.participants) :
             /\ first + Len(result.participants) <= Len(listing.participants)
             /\ \A k \in DOMAIN result.participants :
                  result.participants[k] = listing.participants[first + k]

\* the names of the scopes reserved to the infrastructure
ReservedScopes == {"kube-system", "kube-public", "kube-node-lease", "default"}

\* C21: ListParticipants returns no summary of a reserved scope (kube-system,
\* kube-public, kube-node-lease, default) and, whatever such a scope holds, lists
\* no deployments of it and makes no GetParticipantStatus call for it.
C21_ReservedScopesExcluded ==
  /\ \A k \in DOMAIN listing.participants :
       listing.participants[k].ParticipantName \notin ReservedScopes
  /\ \A k \in DOMAIN listing.probed : listing.probed[k] \notin ReservedScopes
  /\ \A k \in DOMAIN listing.asked : listing.asked[k] \notin ReservedScopes
  /\ \A k \in DOMAIN listing.statuses :
       listing.statuses[k].ParticipantName \notin ReservedScopes
  /\ calls[Lister].name \notin ReservedScopes
  /\ listing.result # <<>> =>
       \A k \in DOMAIN listing.result[1].participants :
         listing.result[1].participants[k].ParticipantName \notin ReservedScopes

\* a listing has returned summaries although the enumeration held the reserved
\* scope default with the deployments of a participant, and kube-system
C21_Witness ==
  /\ Listed
  /\ \E i \in DOMAIN listing.items : \E j \in DOMAIN listing.items :
       /\ listing.items[i] = "default"
       /\ listing.items[j] = "kube-system"
  /\ \E i \in DOMAIN ListIn("default", "Deployments") :
       ListIn("default", "Deployments")[i].Name = "controlplane"
  /\ Len(listing.result[1].participants) = 3
  /\ Len(listing.probed) = 6
  /\ Len(listing.asked) = 5

\* the loop of the call is past the namespace
Processed(name) ==
  \E k \in DOMAIN listing.items :
    /\ listing.items[k] = name
    /\ k < listing.i

\* GetParticipantStatus was called for the namespace
Asked(name) == \E k \in DOMAIN listing.asked : listing.asked[k] = name

\* the deployments of the namespace were listed and the listing did not fail
ProbeSucceeded(name) ==
  /\ \E k \in DOMAIN listing.probed : listing.probed[k] = name
  /\ name \in listing.failed => Asked(name)

\* the scope holds a resource of one of the kinds with the name of a critical
\* component
HoldsCritical(name, kinds) ==
  \E kind \in kinds : \E k \in DOMAIN namespaces[name][kind] :
    \E n \in DOMAIN criticalDeployments :
      namespaces[name][kind][k].Name = criticalDeployments[n]

\* C22 as stated: a scope that is not reserved, and whose probe did not fail, is
\* treated as a participant (GetParticipantStatus is called for it) if and only
\* if it holds a stateless or stateful workload with the name of a critical
\* component.
C22_Original ==
  \A name \in DOMAIN namespaces \ ReservedScopes :
    (Processed(name) /\ ProbeSucceeded(name)) =>
      (Asked(name) <=> HoldsCritical(name, {"Deployments", "StatefulSets"}))

\* C22 as amended: a scope that is not reserved is treated as a participant if
\* and only if the listing of its deployments succeeds and one of them has the
\* name of a critical component; its stateful sets are not looked at; for any
\* other scope no GetParticipantStatus call is made.
C22_DeploymentMembership ==
  /\ \A name \in DOMAIN namespaces \ ReservedScopes :
       Processed(name) =>
         (Asked(name) <=> (ProbeSucceeded(name) /\ HoldsCritical(name, {"Deployments"})))
  /\ (calls[Lister].name # "" /\ calls[Lister].name \notin ReservedScopes) =>
       HoldsCritical(calls[Lister].name, {"Deployments"})

\* a listing is over in which delta, whose postgres is a stateful set and whose
\* only deployment is vault, was probed and skipped, and alpha was asked for
C22_Witness ==
  /\ Listed
  /\ Processed("delta")
  /\ ProbeSucceeded("delta")
  /\ ~Asked("delta")
  /\ HoldsCritical("delta", {"StatefulSets"})
  /\ Asked("alpha")

\* the status GetParticipantStatus finds for the scope in the backing system
StatusInBackingSystem(name) ==
  IF namespaces[name].Deleting THEN StatusDeleting
  ELSE DetermineOverallStatus(
         PutStatuses(
           PutStatuses(EmptyMap, namespaces[name].Deployments, 1, "Deployments"),
           namespaces[name].StatefulSets, 1, "StatefulSets"))[1]

\* the scopes of the enumeration that qualify as participants, in its order
QualifyingScopes ==
  SelectSeq(listing.items,
            LAMBDA name : /\ name \notin ReservedScopes
                          /\ HoldsCritical(name, {"Deployments"}))

\* those of them that no failure struck and that have the status asked for
Unaffected ==
  SelectSeq(QualifyingScopes,
            LAMBDA name : /\ name \notin listing.failed
                          /\ listing.statusFilter \in {"", StatusInBackingSystem(name)})

\* C23: a failure of hasParticipantDeployments or of GetParticipantStatus for
\* one scope excludes that scope only: the call returns no error, the loop goes
\* on, and the summaries kept are those of all the other qualifying scopes, in
\* order, each with the status and time stamp of its scope's response, as in a
\* call without the failure; for page >= 1 and limit >= 1 the call returns.
\* Only a failure of the listing of the namespaces makes the call return an
\* error, and then nothing is probed.
C23_FailureExcludesOneScope ==
  listing.pc = "done" =>
    LET result == listing.result[1]
    IN  /\ listing.failed # {} => result.err = ""
        /\ result.err # "" =>
             /\ listing.probed = <<>>
             /\ listing.asked = <<>>
             /\ result.participants = <<>>
        /\ result.err = "" =>
             /\ listing.probed =
                  SelectSeq(listing.items, LAMBDA name : name \notin ReservedScopes)
             /\ (listing.page >= 1 /\ listing.limit >= 1) => ~result.panic
             /\ Len(listing.participants) = Len(Unaffected)
             /\ \A k \in DOMAIN Unaffected :
                  listing.participants[k] =
                    [ParticipantName |-> Unaffected[k],
                     Status |-> StatusInBackingSystem(Unaffected[k]),
                     LastUpdated |-> data[Unaffected[k]].response.LastUpdated]

\* the probe of alpha and the GetParticipantStatus call of gamma failed, and
\* the listing returned the summaries of beta, omega and zeta
C23_Witness ==
  /\ Listed
  /\ listing.failed = {"alpha", "gamma"}
  /\ ~Asked("alpha")
  /\ Asked("gamma")
  /\ listing.statusFilter = ""
  /\ listing.page = 1
  /\ listing.limit = 3
  /\ [k \in 1..3 |-> listing.result[1].participants[k].ParticipantName]
       = <<"beta", "omega", "zeta">>
  /\ listing.result[1].total = 3

\* the responses GetParticipantStatus returned to the call that have the status
\* asked for, all of them if none was asked for
Counted ==
  SelectSeq(listing.statuses,
            LAMBDA status : listing.statusFilter \in {"", status.Status})

\* C24: when ListParticipants returns, the total is the number of qualifying
\* scopes whose GetParticipantStatus response has the status of the filter (of
\* all of them when the filter is empty), whatever the page; every summary
\* returned has that status; and the summaries have, in order, the name, status
\* and time stamp of those responses.
C24_FilterAndTotal ==
  (Listed /\ ~listing.result[1].panic) =>
    LET result == listing.result[1]
    IN  /\ result.total = Len(Counted)
        /\ listing.statusFilter # "" =>
             \A k \in DOMAIN result.participants :
               result.participants[k].Status = listing.statusFilter
        /\ \A k \in DOMAIN result.participants :
             \E j \in DOMAIN Counted :
               /\ result.participants[k].ParticipantName = Counted[j].ParticipantName
               /\ result.participants[k].Status = Counted[j].Status
               /\ result.participants[k].LastUpdated = Counted[j].LastUpdated
        /\ Len(listing.participants) = Len(Counted)
        /\ \A j \in DOMAIN Counted :
             listing.participants[j] =
               [ParticipantName |-> Counted[j].ParticipantName,
                Status |-> Counted[j].Status,
                LastUpdated |-> Counted[j].LastUpdated]

\* READY was asked for and five responses were obtained, two of them with
\* another status: the total is 3, counted before the page of two was cut, and
\* a summary returned carries the earlier time stamp of the cached response
C24_Witness ==
  /\ Listed
  /\ listing.statusFilter = StatusReady
  /\ Len(listing.statuses) = 5
  /\ \E j \in DOMAIN listing.statuses : listing.statuses[j].Status = StatusDegraded
  /\ \E j \in DOMAIN listing.statuses : listing.statuses[j].Status = StatusDeleting
  /\ listing.page = 1
  /\ listing.limit = 2
  /\ listing.result[1].total = 3
  /\ Len(listing.result[1].participants) = 2
  /\ \E k \in DOMAIN listing.result[1].participants :
       /\ listing.result[1].participants[k].ParticipantName = "gamma"
       /\ listing.result[1].participants[k].LastUpdated < now

\* the step is the cache write of the call of c, and its return
Stores(c) == calls[c].pc = "cacheSet" /\ calls'[c].pc # "cacheSet"

\* the call of c missed the cache, queried the backing system and returned a
\* response
MissedAndReturned(c) ==
  /\ calls[c].pc = "returned"
  /\ calls[c].err = ""
  /\ ~calls[c].hit
  /\ calls[c].backingCalls # <<>>

\* C29: calls of getStatus for one name that miss the cache each query the
\* backing system and each return their own response without error; each
\* writes the entry of the name, replacing what the map held, so that the map
\* holds one entry of the name, that of the call that wrote last: a call whose
\* entry was not written over still finds its response there, and one whose
\* entry was written over finds an entry written no earlier than its own.
C29_LastWriteWins ==
  /\ [][\A c \in Callers :
          Stores(c) =>
            /\ data' = MapPut(data, calls[c].name,
                              CacheEntry(calls[c].response[1], now))
            /\ calls'[c].err = ""
            /\ c \in Observers => calls'[c].response = calls[c].response]_vars
  /\ [](\A c \in Callers :
          (MissedAndReturned(c) /\ calls[c].name \in DOMAIN data) =>
            /\ calls[c].since = "clean" => EntryIsResultOf(c)
            /\ calls[c].since = "overwritten" =>
                 data[calls[c].name].storedAt >= calls[c].storedAt)

\* two calls for alpha both missed and both queried the backing system; c1
\* stored and returned its response, then the other call stored the response
\* it had built later, still within TTL of the first write: the map holds the
\* response written last
C29_Witness ==
  \E c \in Callers :
    /\ MissedAndReturned(c)
    /\ Len(calls[c].backingCalls) = 4
    /\ calls[c].since = "overwritten"
    /\ calls[c].name \in DOMAIN data
    /\ data[calls[c].name].response # calls[c].response[1]
    /\ data[calls[c].name].response.LastUpdated > calls[c].response[1].LastUpdated
    /\ data[calls[c].name].response.LastUpdated <= calls[c].storedAt + TTL

----------------------------------------------------------------------------
(* Properties of the life cycle of the cache (LifeSpec) *)

\* the step is a sweep of the reaper
Swept == nextTick' # nextTick

\* what a get finds in the map, by the time of the set of the entry
ReadTimeExpiry ==
  got # <<>> =>
    got.result =
      IF got.key \in DOMAIN data /\ now <= data[got.key].storedAt + TTL
        THEN <<data[got.key].response>>
        ELSE <<>>

\* C25 as stated: once stop() has been called, the reaper makes no further sweep.
C25_Original == [][stopChan = "closed" => ~Swept]_vars

\* C25 as amended: after stop() has been called once, the reaper returns
\* eventually (unless stop() is called again first); until it has, it can still
\* make the sweep of a tick that is due; once it has returned it never sweeps
\* and never runs again; and a get still returns the response of an entry
\* exactly while the entry is in the map and its expiry instant has not passed.
C25_ReaperStops ==
  /\ (stopChan = "closed") ~> (reaper = "returned" \/ crashed)
  /\ [][reaper = "returned" => (~Swept /\ reaper' = "returned")]_vars
  /\ [][(stopChan = "closed" /\ Swept) => now >= nextTick]_vars
  /\ [](stopChan = "closed" => ReadTimeExpiry)

\* the reaper has returned after one stop() without ever sweeping, its tick is
\* overdue, an expired entry is still in the map, and a get of its key returns nil
C25_Witness ==
  /\ reaper = "returned"
  /\ ~crashed
  /\ nextTick = CleanupInterval
  /\ now > nextTick
  /\ got # <<>>
  /\ got.key \in DOMAIN data
  /\ now > data[got.key].storedAt + TTL
  /\ got.result = <<>>

\* C26 as stated: however often stop() is called on a cache, the process does
\* not panic.
C26_Original == ~crashed

----------------------------------------------------------------------------
(* Properties of the deadlines (DeadlineSpec) *)

\* the deadline an operation entered at that time with that ctx is to observe
Governing(ctx, entered) ==
  IF ctx # <<>> THEN ctx ELSE <<entered + DefaultTimeout>>

\* the caller is inside GetParticipantStatus
InFlight(c) == calls[c].pc \notin {"idle", "returned"}

\* the step is a call of c to the backing system that succeeds
BackingCallSucceeds(c) ==
  /\ calls[c].pc \in {"getNamespace", "listDeployments", "listStatefulSets",
                       "listEvents"}
  /\ calls'[c].pc \in {"listDeployments", "listStatefulSets", "listEvents",
                        "cacheSet"}
  /\ calls'[c].pc # calls[c].pc
  /\ calls'[c].eventsErr = ""

\* the step is a listing of ListParticipants itself that succeeds
ProbeSucceeds ==
  /\ listing.pc = "probe"
  /\ Len(listing'.probed) > Len(listing.probed)
  /\ listing'.failed = listing.failed

\* C27: an operation called with a deadline runs under that deadline, tighter
\* or looser than 30 seconds; one called without runs under the deadline of 30
\* seconds after its entry, set once; the GetParticipantStatus calls made by
\* ListParticipants run under the deadline of the listing, not under one of
\* their own; and no call to the backing system succeeds once the deadline of
\* its operation has come.
C27_OneDeadline ==
  /\ [](\A c \in Callers :
          InFlight(c) =>
            calls[c].deadline = Governing(calls[c].ctx, calls[c].entered))
  /\ [](listing.pc \in {"probe", "status"} =>
          /\ listing.deadline = Governing(listing.ctx, listing.entered)
          /\ InFlight(Lister) => calls[Lister].deadline = listing.deadline)
  /\ [][\A c \in Callers :
          BackingCallSucceeds(c) =>
            now < Governing(calls[c].ctx, calls[c].entered)[1]]_vars
  /\ [][ProbeSucceeds => now < Governing(listing.ctx, listing.entered)[1]]_vars
  /\ [][(BackingCallSucceeds(Lister) /\ listing.pc = "status") =>
          now < Governing(listing.ctx, listing.entered)[1]]_vars

\* a listing called without a deadline is in its second GetParticipantStatus
\* call, entered two Quantum later: the call runs under the deadline of the
\* listing, which the probe of the first scope and the first call also observed
C27_Witness ==
  /\ listing.pc = "status"
  /\ listing.ctx = <<>>
  /\ listing.items[listing.i] = "zeta"
  /\ Len(listing.statuses) = 1
  /\ calls[Lister].pc = "listDeployments"
  /\ calls[Lister].entered = listing.entered + 2 * Quantum
  /\ calls[Lister].deadline = <<listing.entered + DefaultTimeout>>

----------------------------------------------------------------------------
(* Properties of the locking (LockSpec) *)

\* the goroutine is inside the critical section of an operation on the instance
Inside(g, instance) == ops[g].pc = "inside" /\ ops[g].cache = instance

\* the operations that are to run alone
ExclusiveOps == {"set", "invalidate", "clear", "sweep"}

\* C28: in every interleaving of get, set, invalidate, clear and sweeps, while
\* a set, invalidate, clear or sweep is inside its critical section on a cache
\* instance, no other operation is inside its own on that instance; and an
\* operation waits for the lock only while an operation on the same instance is
\* inside: never for one on another instance.
C28_Exclusion ==
  \A g \in Requests \cup Reapers :
    /\ (ops[g].pc = "inside" /\ ops[g].op \in ExclusiveOps) =>
         \A h \in (Requests \cup Reapers) \ {g} : ~Inside(h, ops[g].cache)
    /\ (ops[g].pc = "waiting" /\ ~ENABLED Acquire(g)) =>
         \E h \in (Requests \cup Reapers) \ {g} :
           /\ Inside(h, ops[g].cache)
           /\ ops[g].op \in ExclusiveOps \/ ops[h].op \in ExclusiveOps

\* two gets are inside their critical sections on instance a at the same time,
\* with the reaper of a waiting for them, while the reaper of b is inside its
\* sweep
C28_Witness ==
  /\ Inside("g1", "a") /\ ops["g1"].op = "get"
  /\ Inside("g2", "a") /\ ops["g2"].op = "get"
  /\ mu["a"].readers = 2
  /\ ops["ra"].pc = "waiting"
  /\ ~ENABLED Acquire("ra")
  /\ Inside("rb", "b")

(***************************************************************************)
(* The reaper and the results of get                                       *)
(***************************************************************************)

\* the entries of the map whose expiry instant has passed
ExpiredKeys == {k \in DOMAIN data : now > data[k].expiresAt}

\* C30: the reaper is not needed for correct results.  A sweep removes
\* every entry that is expired at the time of the sweep, and removes or
\* changes no entry that is not expired.  Therefore a get of any key
\* returns the same result on the cache as on a twin cache that was given
\* the same set, invalidate and clear operations at the same times and
\* whose reaper never swept, at whatever points the reaper of the cache
\* did sweep.
C30_ReaperNotLoadBearing ==
  /\ [][Swept =>
          /\ DOMAIN data' = (DOMAIN data) \ ExpiredKeys
          /\ \A k \in DOMAIN data' : data'[k] = data[k]]_vars
  /\ [](\A key \in Keys : CacheGet(key) = TwinGet(key))
  /\ [](got # <<>> => got.result = got.twin)

\* a sweep has removed an expired entry that the twin still holds and has
\* kept an unexpired one; a get of the removed key returned nothing on both
C30_Witness ==
  /\ got # <<>>
  /\ got.key \in (DOMAIN unswept) \ (DOMAIN data)
  /\ got.result = <<>>
  /\ got.twin = <<>>
  /\ nextTick > CleanupInterval
  /\ \E k \in DOMAIN data : data[k] = unswept[k]

(***************************************************************************)
(* The order of the steps of one call                                      *)
(***************************************************************************)

\* the calls GetParticipantStatus makes to the backing system, in the order
\* of the code
BackingOrder == <<"namespace", "deployments", "statefulsets", "events">>

\* s is an initial part of t
IsPrefix(s, t) == Len(s) <= Len(t) /\ s = SubSeq(t, 1, Len(s))

\* the call is between its cache miss and its return
Running(c) == calls[c].pc \notin {"idle", "returned"}

\* the step ends the call of c
Returns(c) == Running(c) /\ calls'[c].pc \in {"idle", "returned"}

\* C31: within one GetParticipantStatus call that misses the cache, the calls
\* to the backing system are made in the order namespace lookup, deployment
\* listing, stateful-set listing, event listing, none skipped or repeated;
\* the reduction is computed once both listings have returned and before the
\* event query; no listing is made when the namespace is absent or marked
\* for deletion; and a call that returns a response built in the call
\* returns in the step that writes that response to the cache, every other
\* return of a running call being a failed backing call that writes nothing.
C31_StepsInOrder ==
  /\ [](\A c \in Callers :
          /\ IsPrefix(calls[c].backingCalls, BackingOrder)
          /\ ~calls[c].hit =>
               /\ calls[c].pc = "getNamespace" => calls[c].backingCalls = <<>>
               /\ calls[c].pc = "listDeployments" =>
                    calls[c].backingCalls = SubSeq(BackingOrder, 1, 1)
               /\ calls[c].pc = "listStatefulSets" =>
                    calls[c].backingCalls = SubSeq(BackingOrder, 1, 2)
               /\ calls[c].pc = "listEvents" =>
                    calls[c].backingCalls = SubSeq(BackingOrder, 1, 3)
          /\ calls[c].status # <<>> =>
               IsPrefix(SubSeq(BackingOrder, 1, 3), calls[c].backingCalls)
          /\ Len(calls[c].backingCalls) = 4 => calls[c].status # <<>>
          /\ calls[c].pc \in {"listDeployments", "listStatefulSets"} =>
               calls[c].status = <<>>
          /\ calls[c].saw \in {"absent", "deleting"} =>
               calls[c].backingCalls = SubSeq(BackingOrder, 1, 1))
  /\ [][\A c \in Callers :
          /\ calls[c].pc = "cacheSet" /\ calls'[c] # calls[c] =>
               /\ Returns(c)
               /\ calls[c].name \in DOMAIN data'
               /\ data'[calls[c].name].response = calls[c].response[1]
               /\ c \in Observers =>
                    /\ calls'[c].err = ""
                    /\ calls'[c].response = calls[c].response
          /\ Returns(c) /\ calls[c].pc # "cacheSet" =>
               /\ data' = data
               /\ c \in Observers =>
                    calls'[c].err # "" /\ calls'[c].response = <<>>]_vars

\* an observed call that missed made the four backing calls and returned the
\* response it wrote; another that found the namespace marked for deletion
\* made the lookup only
C31_Witness ==
  \E c \in Observers :
    /\ calls[c].pc = "returned"
    /\ ~calls[c].hit
    /\ calls[c].err = ""
    /\ calls[c].backingCalls = BackingOrder
    /\ calls[c].eventsErr = ""
    /\ calls[c].response[1].Status = StatusDegraded
    /\ calls[c].name \in DOMAIN data
    /\ data[calls[c].name].response = calls[c].response[1]
    /\ \E d \in Callers \ {c} :
         /\ calls[d].pc = "cacheSet"
         /\ calls[d].saw = "deleting"
         /\ calls[d].backingCalls = SubSeq(BackingOrder, 1, 1)

(***************************************************************************)
(* Staleness                                                               *)
(***************************************************************************)

\* the step is a cache hit of a call of c
Hits(c) ==
  /\ calls[c].pc \in {"idle", "returned"}
  /\ calls'[c] # calls[c]
  /\ calls'[c].pc = "returned"
  /\ calls'[c].hit
  /\ calls'[c].since = "clean"

\* the step writes the entry of key
Writes(key) ==
  /\ key \in DOMAIN data'
  /\ key \in DOMAIN data => data'[key] # data[key]

\* C32: the staleness of what the cache serves is bounded by the TTL.  At
\* every time t, a response that get returns for a name, and so every
\* response GetParticipantStatus returns from the cache, was stored by a
\* write at a time s with t - TTL <= s <= t.  Every entry expires TTL after
\* its write; a write replaces the whole entry: it holds the written response
\* and expires TTL after the write; and a cache hit returns the response of
\* the entry and changes no entry.
C32_BoundedStaleness ==
  /\ [](\A key \in Names :
          CacheGet(key) # <<>> =>
            /\ now - TTL <= data[key].storedAt
            /\ data[key].storedAt <= now)
  /\ [](\A key \in DOMAIN data : data[key].expiresAt = data[key].storedAt + TTL)
  /\ [][\A key \in Names :
          Writes(key) =>
            /\ data'[key].storedAt = now
            /\ data'[key].expiresAt = now + TTL
            /\ \E c \in Callers :
                 /\ calls[c].pc = "cacheSet"
                 /\ calls[c].name = key
                 /\ data'[key].response = calls[c].response[1]]_vars
  /\ [][\A c \in Observers :
          Hits(c) =>
            /\ data' = data
            /\ calls'[c].response = <<data[calls'[c].name].response>>
            /\ calls'[c].storedAt = data[calls'[c].name].storedAt
            /\ now - TTL <= calls'[c].storedAt
            /\ calls'[c].storedAt <= now]_vars

\* a call was served, at the last instant of the entry, a response that was
\* built before it was written
C32_Witness ==
  \E c \in Observers :
    /\ calls[c].pc = "returned"
    /\ calls[c].hit
    /\ calls[c].since = "clean"
    /\ calls[c].storedAt = now - TTL
    /\ calls[c].storedAt > StartTime
    /\ data[calls[c].name].expiresAt = now
    /\ calls[c].response[1].LastUpdated < calls[c].storedAt

(***************************************************************************)
(* An invalidate that crosses a call in flight                             *)
(***************************************************************************)

\* the step is an invalidate of the name of c that runs while c holds its
\* response and has not written it
CrossedBy(c) == ~calls[c].crossed /\ calls[c].pc = "cacheSet" /\ calls'[c].crossed

\* C33: an invalidate of a name that runs while a GetParticipantStatus call
\* for the name is in flight, after the call has read the backing system and
\* before its cache write, removes the entry of the name and leaves the call
\* as it is; the next step of the call writes its response to the cache, so
\* the entry is there again after the invalidate; and while that entry
\* stands, up to TTL after the write, a GetParticipantStatus for the name is
\* served that response from the cache, with no call to the backing system:
\* data read before the invalidate.
C33_RepopulatedAfterInvalidate ==
  /\ [][\A c \in Callers :
          CrossedBy(c) =>
            /\ calls[c].name \notin DOMAIN data'
            /\ calls'[c] = [calls[c] EXCEPT !.crossed = TRUE]]_vars
  /\ [][\A c \in Callers :
          calls[c].crossed /\ calls[c].pc = "cacheSet" /\ calls'[c] # calls[c] =>
            /\ Returns(c)
            /\ calls[c].name \in DOMAIN data'
            /\ data'[calls[c].name].response = calls[c].response[1]
            /\ data'[calls[c].name].expiresAt = now + TTL
            /\ data'[calls[c].name].crossed]_vars
  /\ [](\A name \in DOMAIN data :
          data[name].crossed /\ now <= data[name].storedAt + TTL =>
            /\ CacheGet(name) = <<data[name].response>>
            /\ data[name].response.LastUpdated <= data[name].storedAt)
  /\ [][\A c \in Observers :
          Hits(c) /\ data[calls'[c].name].crossed =>
            /\ calls'[c].crossed
            /\ calls'[c].backingCalls = <<>>
            /\ calls'[c].err = ""
            /\ calls'[c].response = <<data[calls'[c].name].response>>]_vars

\* a call read that the scope is absent; the scope was created and the name
\* invalidated before the call wrote; the first call after the invalidate is
\* served NOT_FOUND from the cache although the scope exists
C33_Witness ==
  \E c \in Observers :
    /\ calls[c].pc = "returned"
    /\ calls[c].hit
    /\ calls[c].crossed
    /\ calls[c].afterInvalidate
    /\ calls[c].backingCalls = <<>>
    /\ calls[c].response[1].Status = StatusNotFound
    /\ calls[c].name \in DOMAIN namespaces
    /\ calls[c].since = "clean"

(***************************************************************************)
(* The statuses produced (StatusSpec)                                      *)
(***************************************************************************)

\* the statuses the reducer returns
ReducerStatuses == {StatusReady, StatusDegraded, StatusProvisioning}

\* the statuses of the responses
ResponseStatuses == ReducerStatuses \cup {StatusNotFound, StatusDeleting}

\* C34: the status FAILED is never produced.  DetermineOverallStatus returns
\* READY, DEGRADED or PROVISIONING on every mapping, alone and within a call;
\* and every response that GetParticipantStatus builds or returns, every
\* response in the cache and every summary that ListParticipants collects or
\* returns has a status among READY, DEGRADED, PROVISIONING, NOT_FOUND and
\* DELETING.
C34_NeverFailed ==
  /\ StatusFailed \notin ResponseStatuses
  /\ overall # <<>> => overall[1] \in ReducerStatuses
  /\ \A c \in Callers :
       /\ calls[c].status # <<>> => calls[c].status[1] \in ReducerStatuses
       /\ calls[c].response # <<>> =>
            calls[c].response[1].Status \in ResponseStatuses
  /\ \A key \in DOMAIN data : data[key].response.Status \in ResponseStatuses
  /\ \A j \in DOMAIN listing.statuses :
       listing.statuses[j].Status \in ResponseStatuses
  /\ \A j \in DOMAIN listing.participants :
       listing.participants[j].Status \in ResponseStatuses
  /\ listing.result # <<>> =>
       \A j \in DOMAIN listing.result[1].participants :
         listing.result[1].participants[j].Status \in ResponseStatuses

\* a listing returned summaries with a status of the reducer other than
\* READY and with DELETING, all five of its responses being in the cache
C34_Witness ==
  /\ listing.pc = "done"
  /\ listing.result[1].err = ""
  /\ ~listing.result[1].panic
  /\ \E j \in DOMAIN listing.result[1].participants :
       listing.result[1].participants[j].Status = StatusDeleting
  /\ \E j \in DOMAIN listing.result[1].participants :
       listing.result[1].participants[j].Status \in ReducerStatuses \ {StatusReady}
  /\ \E j \in DOMAIN listing.result[1].participants :
       listing.result[1].participants[j].Status = StatusReady
  /\ Cardinality(DOMAIN data) = 5

(***************************************************************************)
(* The seeding of the identity hub (SeedSpec)                              *)
(***************************************************************************)

\* the template with every placeholder replaced by the values of definition
RECURSIVE Substituted(_, _, _)
Substituted(text, definition, k) ==
  IF k > Len(Substitutions(definition)) THEN text
  ELSE Substituted(Replace(text, Substitutions(definition)[k][1],
                           Substitutions(definition)[k][2]),
                   definition, k + 1)

\* C35 as stated: the body that seedIdentityHubData hands to CreateParticipant
\* for a participant is the template with that participant's own name, DID
\* and service URLs, whatever other create requests came before or overlap.
C35_Original ==
  \A g \in Seeders :
    seeds[g].body # <<>> =>
      seeds[g].body = Substituted(ParticipantTemplate, seeds[g].definition, 1)

(***************************************************************************)
(* The readiness wait (WaitSpec, WaitFairSpec)                             *)
(***************************************************************************)

\* the wait for the deployment has returned
WaitOver(name) == waiters[name].pc \in {"returned", "done"}

\* the wait for the deployment returned nil on a Get that showed as many ready
\* replicas as desired
SeenReady(name) ==
  /\ WaitOver(name)
  /\ waiters[name].result = <<"">>
  /\ waiters[name].seen # <<>>
  /\ waiters[name].seen[1].ReadyReplicas = WantedReplicas(waiters[name].seen[1])

\* C36: for a create request the readiness callback runs at most once, and
\* only after each of controlplane, identityhub and dataplane has been seen
\* with as many ready replicas as desired; once the wait for one deployment
\* has returned an error the callback never runs; and waitForDeployments
\* returns only when it has received the result of every waiter, its result
\* being the first error received, if any.
C36_CallbackOnceWhenAllReady ==
  /\ [](collector.callbacks <= 1)
  /\ [](collector.callbacks = 1 =>
          /\ collector.pc = "ended"
          /\ \A name \in Range(participantDeploymentNames) : SeenReady(name))
  /\ []((\E name \in Range(participantDeploymentNames) :
           WaitOver(name) /\ waiters[name].result # <<"">>) =>
          collector.callbacks = 0)
  /\ [](collector.pc \in {"returned", "ended"} =>
          /\ collector.received = Len(participantDeploymentNames)
          /\ errCh = <<>>
          /\ \A name \in Range(participantDeploymentNames) :
               waiters[name].pc = "done"
          /\ collector.firstErr = "" <=>
               \A name \in Range(participantDeploymentNames) :
                 waiters[name].result = <<"">>)
  /\ [][collector'.callbacks # collector.callbacks =>
          /\ collector.pc = "returned"
          /\ collector.firstErr = ""
          /\ collector'.callbacks = collector.callbacks + 1]_vars

\* the callback ran for deployments that ask for two replicas, one of which
\* has lost a replica since it was seen ready
C36_Witness ==
  /\ collector.pc = "ended"
  /\ collector.callbacks = 1
  /\ \A name \in Range(participantDeploymentNames) :
       /\ SeenReady(name)
       /\ waiters[name].seen[1].Replicas = <<2>>
  /\ \E name \in Range(participantDeploymentNames) :
       cluster[name].ReadyReplicas < WantedReplicas(cluster[name])

\* the wait for the deployment is under way
Waiting(name) == waiters[name].pc \in {"get", "select"}

\* C37 as stated: every readiness wait eventually ends.  waitForDeployment
\* returns nil on the lookup that shows the deployment with as many ready
\* replicas as desired, returns the error on the lookup that fails, and
\* returns once the context has been cancelled; and under the context the
\* create handler passes, context.Background(), the wait ends even for a
\* deployment that exists and never becomes ready.
C37_Original ==
  /\ [][\A name \in Range(participantDeploymentNames) :
          waiters[name].pc = "get" /\ waiters'[name].pc # "get" =>
            /\ waiters'[name].result = <<"">> <=>
                 /\ waiters'[name].seen = <<cluster[name]>>
                 /\ cluster[name].ReadyReplicas = WantedReplicas(cluster[name])
            /\ waiters'[name].pc = "select" =>
                 cluster[name].ReadyReplicas # WantedReplicas(cluster[name])]_vars
  /\ \A name \in Range(participantDeploymentNames) :
       (Waiting(name) /\ waitCtx.done) ~> WaitOver(name)
  /\ \A name \in Range(participantDeploymentNames) :
       (Waiting(name) /\ waitCtx = Background) ~>
         (WaitOver(name) \/
            cluster[name].ReadyReplicas = WantedReplicas(cluster[name]))

====
